---- MODULE Spec2Model ----
(***************************************************************************)
(* Model of the rtvoicechat server: the transcription orchestrator         *)
(* (server/app/transcribe_client.py, streaming_transcribe_client.py,       *)
(* audio_converter.py) and the coordinator's voice flows                   *)
(* (server/app/voice_agent.py, bedrock_client.py, data_handler.py,         *)
(* polly_client.py).                                                       *)
(*                                                                         *)
(* Python strings are sequences of tokens: a token stands for a run of     *)
(* characters that the code never looks inside (a word, a fixed phrase),   *)
(* while ":" and " " are tokens of their own, so that strip(), split(":"), *)
(* startswith() and "x in s" are computed as the code computes them.       *)
(* One behaviour is one request served by one VoiceAgent.                  *)
(***************************************************************************)
EXTENDS Integers, Sequences, FiniteSets, TLC

VARIABLES
    mode,        \* TranscribeClient.current_transcription_mode
    fallback,    \* Config.ENABLE_STREAMING_FALLBACK
    creds,       \* Config.AWS_ACCESS_KEY_ID and Config.AWS_SECRET_ACCESS_KEY are both set
    flow,        \* the coordinator method serving the request, "none" before it arrives
    audio,       \* audio_data: [len, header]
    tpc,         \* position inside transcribe_audio_bytes
    pcm,         \* len(pcm_audio); 0 stands for None or b""
    tr,          \* the closure dict transcription_result of _transcribe_audio_streaming
    sess,        \* the streaming session run by start_streaming_transcription
    sessTicks,   \* polling steps of wall-clock time spent inside the awaited session
    waited,      \* polling steps elapsed since start_time (transcribe_client.py:182)
    strm,        \* how the streaming attempt ended: [outcome, error], "none" while it has not
    bucketArg,   \* the audio_data argument of each _transcribe_audio_bucket call, in order
    bret,        \* the dict returned by _transcribe_audio_bucket
    bk,          \* the bucket path's locals and the S3 object it uploaded
    tresult,     \* the dict returned by transcribe_audio_bytes
    vpc,         \* position inside the voice flow
    intent,      \* the dict returned by analyze_intent
    textres,     \* the dict returned by process_text_input
    vresult,     \* the dict returned by the voice flow
    synthArg,    \* the text argument of each synthesizer call, in order
    polly,       \* the dict returned by the synthesizer
    log,         \* every call made to a backend or stage, in order
    fn,          \* the function applied on its own to arg, "none" while none was
    arg,         \* the str argument of that function
    found,       \* what the lookup function returned
    parsed,      \* what _parse_intent_response returned
    countriesFile, \* what opening and parsing data/countries.json does
    statesFile,  \* what opening and parsing data/us-states.json does
    dh,          \* VoiceAgent.data_handler: [status, countries, states]
    client,      \* the attributes the one StreamingTranscribeClient shares among its callers
    calls,       \* concurrent calls of transcribe_audio_bytes on the one TranscribeClient
    live,        \* the live session opened with start_real_time_transcription
    fe           \* what calls the voice flow: a direct call, the LiveKit agent or /ws

vars == <<mode, fallback, creds, flow, audio, tpc, pcm, tr, sess, sessTicks, waited,
          strm, bucketArg, bret, bk, tresult, vpc, intent, textres, vresult, synthArg,
          polly, log, fn, arg, found, parsed, countriesFile, statesFile, dh,
          client, calls, live, fe>>

tvars == <<tpc, pcm, tr, sess, sessTicks, waited, strm, bucketArg, bret, bk, tresult>>

vvars == <<vpc, intent, textres, vresult, synthArg, polly>>

\* a function of the data handler or of the classifier called on its own
pvars == <<fn, arg, found, parsed>>

\* the data files and the data handler built from them
dvars == <<countriesFile, statesFile, dh>>

\* the shared streaming client, the calls that run on it together and the live session
kvars == <<client, calls, live>>

cvars == <<mode, fallback, creds, flow, audio, pvars, dvars, kvars, fe>>

\* the locals of _transcribe_audio_streaming and of the session it awaits
svars == <<pcm, tr, sess, sessTicks, waited>>

-----------------------------------------------------------------------------
(* Bounds of the model *)

\* the longest PCM stream, in whole chunks of chunk_size bytes
MaxChunks == 2

\* polling steps a streaming session is followed for; time spent in it saturates here
MaxSessionTicks == 4

\* Config.STREAMING_TIMEOUT in polling steps of the wait loop (each sleep is one step)
StreamingTimeout == 2

\* status polls counted and logged by the bucket path; later polls leave the count alone
MaxPolls == 2

-----------------------------------------------------------------------------
(* Python values *)

None == <<"None">>          \* Python's None
Absent == <<"absent">>      \* a key the dict does not have
Str(t) == <<t>>

\* dict.get(key, default)
Get(d, key, default) == IF d[key] = Absent THEN default ELSE d[key]

\* d.get(key): a key that is missing reads as None
Read(d, key) == Get(d, key, None)

\* truth value of a str-or-None (if x: ...)
Truthy(x) == x # None /\ x # Absent /\ x # <<>>

IsSpace(t) == t \in {" ", "\t", "\n"}

RECURSIVE LStrip(_)
LStrip(s) == IF s # <<>> /\ IsSpace(Head(s)) THEN LStrip(Tail(s)) ELSE s

RECURSIVE RStrip(_)
RStrip(s) ==
    IF s # <<>> /\ IsSpace(s[Len(s)]) THEN RStrip(SubSeq(s, 1, Len(s) - 1)) ELSE s

\* str.strip()
Strip(s) == RStrip(LStrip(s))

\* "tok" in s
Contains(s, tok) == \E i \in 1..Len(s) : s[i] = tok

Min(a, b) == IF a < b THEN a ELSE b

-----------------------------------------------------------------------------
(* Inputs and what the remote services may answer *)

MinAudioBytes == 100
WavHeaderBytes == 44
chunk_size == 1024 * 8

Headers == {"RIFF_WAVE", "RIFF", "ID3", "FFFB", "EBML", "OggS", "other"}

\* lengths the converter may return: one full chunk, and MaxChunks chunks with a short last one
PcmLens == {chunk_size, chunk_size * (MaxChunks - 1) + 1}

\* the empty byte string
NoAudio == [len |-> 0, header |-> "other"]

\* the requests' audio: a payload under the size guard, each kind of header on a
\* payload that passes it, and a longer WAV payload
Audios == {[len |-> MinAudioBytes - 1, header |-> "other"]}
          \cup {[len |-> MinAudioBytes, header |-> h] : h \in {"RIFF_WAVE", "ID3", "other"}}
          \cup {[len |-> WavHeaderBytes + chunk_size * (MaxChunks - 1) + 1, header |-> "RIFF_WAVE"]}

\* str(e) of the exceptions the S3 and Transcribe calls of the bucket path raise
ExcMsgs == {<<"An error occurred (", "NoSuchBucket", ")">>,
            <<"An error occurred (", "AccessDenied", ")">>,
            <<"Could not connect to the endpoint URL">>}

\* str(e) of the exceptions of the streaming session, of the temporary file, of the
\* language model and of the synthesizer
StreamMsgs == {<<"Connection closed by the service">>}
\* str(e) of the exception the event stream raises inside handle_events()
HandlerMsgs == {<<"The event stream was reset">>}
FileMsgs == {<<"No space left on device">>}
ModelMsgs == {<<"An error occurred (", "ThrottlingException", ")">>}

\* transcripts carried by the events of a streaming session
Transcripts == {<<" ">>, <<"what is">>, <<"what is", " ", "the capital of Japan">>}

NoStream == [outcome |-> "none", error |-> Absent]

\* transcripts a finished batch job holds
JobTranscripts == {<<>>, <<"what is", " ", "the capital of Japan">>}

FailureReasons == {Absent, <<"Unsupported media format">>}

Flows == {"process_voice_input", "process_voice_with_audio_response"}

-----------------------------------------------------------------------------
(* audio_converter.py *)

\* faulty variant: no default for a header that matches nothing
detect_audio_format_NoDefault(a) ==
    IF a.header = "RIFF_WAVE" THEN "wav"
    ELSE IF a.header \in {"ID3", "FFFB"} THEN "mp3"
    ELSE IF a.header = "EBML" THEN "webm"
    ELSE IF a.header = "OggS" THEN "ogg"
    ELSE "unknown"

detect_audio_format(a) ==
    IF a.header = "RIFF_WAVE" THEN "wav"
    ELSE IF a.header \in {"ID3", "FFFB"} THEN "mp3"
    ELSE IF a.header = "EBML" THEN "webm"
    ELSE IF a.header = "OggS" THEN "ogg"
    ELSE "webm"

\* len(convert_to_pcm(a, fmt)), 0 for None or b""; `decoded` is what pydub or ffmpeg
\* produce when the audio is handed to them
convert_to_pcm(a, fmt, decoded) ==
    IF fmt = "wav" /\ a.header \in {"RIFF", "RIFF_WAVE"} /\ a.len > WavHeaderBytes
    THEN a.len - WavHeaderBytes
    ELSE decoded

\* the chunks audio_stream() yields: range(0, len(pcm_audio), chunk_size)
NumChunks(n) == (n + chunk_size - 1) \div chunk_size
ChunkLen(n, i) == Min(chunk_size, n - i * chunk_size)

-----------------------------------------------------------------------------
(* transcribe_client.py: results *)

\* faulty variant: the failure carries its message as the transcription
Fail_MessageAsText(err) ==
    [success |-> FALSE, error |-> Absent, transcription |-> err, note |-> Absent]

Fail(err) ==
    [success |-> FALSE, error |-> err, transcription |-> None, note |-> Absent]

StreamingOk(text) ==
    [success |-> TRUE, error |-> Absent, transcription |-> text,
     note |-> Str("Streaming transcription completed successfully.")]

BucketOk(text) ==
    [success |-> TRUE, error |-> Absent, transcription |-> text,
     note |-> Str("Bucket-based transcription completed.")]

NoResult == [success |-> FALSE, error |-> Absent, transcription |-> Absent, note |-> Absent]

\* what _transcribe_audio returns from its except branch
ErrorText(e) ==
    IF Contains(e, "NoSuchBucket")
    THEN Str("S3 bucket not found. Please create the bucket or check configuration.")
    ELSE IF Contains(e, "AccessDenied")
    THEN Str("Access denied. Please check AWS credentials and permissions.")
    ELSE Str("Transcription failed: ") \o e

TestTranscription ==
    Str("This is a test transcription. Please configure AWS credentials for real transcription.")

JobFailed(reason) ==
    Str("Transcription job failed: ") \o Get([r |-> reason], "r", Str("Unknown error"))

NewTr == [text |-> <<>>, completed |-> FALSE, error |-> Absent]
\* faulty variant: the text is appended to what was delivered before
on_transcription_Accumulates(d, text) == [d EXCEPT !.text = @ \o text, !.completed = TRUE]

on_transcription(d, text) == [d EXCEPT !.text = text, !.completed = TRUE]
on_error(d, err) == [d EXCEPT !.error = err, !.completed = TRUE]

\* the session: chunks taken from audio_stream(), chunks the service was sent (offset
\* and length), end_stream() calls, the two coroutines' ends, and of the results that
\* reached the transcription callback whether one was final, which kind came last
\* and the transcript of the last one
NewSess == [count |-> 0, sent |-> <<>>, ended |-> 0, procDone |-> FALSE, handlerDone |-> FALSE,
            finals |-> FALSE, origin |-> "none", last |-> <<>>]

NewBk == [s3obj |-> "none", polls |-> 0, status |-> "none", transcript |-> None]

Logged(e) == log' = Append(log, e)

-----------------------------------------------------------------------------
(* transcribe_client.py: transcribe_audio_bytes *)

Return(r) == tresult' = r /\ tpc' = "done"

\* self._transcribe_audio_bucket(a) is called
CallBucket(a) == bucketArg' = Append(bucketArg, a) /\ tpc' = "bucket" /\ UNCHANGED tresult

\* _transcribe_audio_streaming is left: its locals and the session end with it
ReleaseLocals ==
    /\ pcm' = 0
    /\ tr' = NewTr
    /\ sess' = NewSess
    /\ sessTicks' = 0
    /\ waited' = 0

\* faulty variant: the fallback passes the converted PCM audio on to the bucket path
FallbackOrError_PassesPcm(trigger, err) ==
    /\ strm' = [outcome |-> trigger, error |-> err]
    /\ ReleaseLocals
    /\ IF fallback
       THEN CallBucket(IF pcm > 0 THEN [len |-> pcm, header |-> "other"] ELSE audio)
       ELSE Return(Fail(err)) /\ UNCHANGED bucketArg

\* faulty variant: the fallback flag is not consulted
FallbackOrError_IgnoresFlag(trigger, err) ==
    /\ strm' = [outcome |-> trigger, error |-> err]
    /\ ReleaseLocals
    /\ CallBucket(audio)

\* the five fallback sites of _transcribe_audio_streaming
FallbackOrError(trigger, err) ==
    /\ strm' = [outcome |-> trigger, error |-> err]
    /\ ReleaseLocals
    /\ IF fallback
       THEN CallBucket(audio)
       ELSE Return(Fail(err)) /\ UNCHANGED bucketArg

\* the voice flow is called directly, or by the LiveKit agent for a payload it
\* received, or by the /ws endpoint for a message it decoded
Direct == [kind |-> "direct", pc |-> "none", is_connected |-> FALSE, published |-> 0,
           replies |-> 0, reply |-> "none"]

Caller(f) ==
    \/ fe.kind = "direct"
    \/ fe.kind = "room" /\ fe.pc = "received" /\ f = "process_voice_with_audio_response"
    \/ fe.kind = "ws" /\ fe.pc = "decoded" /\ f = "process_voice_input"

Request(f, a) ==
    /\ flow = "none"
    /\ dh.status = "ready"
    /\ Caller(f)
    /\ flow' = f
    /\ audio' = a
    /\ tpc' = "entry"
    /\ vpc' = "transcribe"
    /\ Logged("transcribe")
    /\ UNCHANGED <<mode, fallback, creds, pcm, tr, sess, sessTicks, waited, strm,
                   bucketArg, bret, bk, tresult, intent, textres, vresult, synthArg,
                   polly, pvars, dvars, kvars, fe>>

\* faulty variant: the size guard is off by one
transcribe_audio_bytes_OffByOne ==
    /\ tpc = "entry"
    /\ IF audio.len < MinAudioBytes - 1
       THEN Return(Fail(Str("Audio data too small or invalid"))) /\ UNCHANGED bucketArg
       ELSE IF mode = "streaming"
       THEN tpc' = "streaming" /\ UNCHANGED <<tresult, bucketArg>>
       ELSE CallBucket(audio)
    /\ UNCHANGED <<cvars, vvars, pcm, tr, sess, sessTicks, waited, strm, bret, bk, log>>

\* the size guard and the choice of the path
transcribe_audio_bytes ==
    /\ tpc = "entry"
    /\ IF audio.len < MinAudioBytes
       THEN Return(Fail(Str("Audio data too small or invalid"))) /\ UNCHANGED bucketArg
       ELSE IF mode = "streaming"
       THEN tpc' = "streaming" /\ UNCHANGED <<tresult, bucketArg>>
       ELSE CallBucket(audio)
    /\ UNCHANGED <<cvars, vvars, pcm, tr, sess, sessTicks, waited, strm, bret, bk, log>>

\* _transcribe_audio_streaming: the credentials check
StreamingCredentials ==
    /\ tpc = "streaming"
    /\ IF ~creds
       THEN FallbackOrError("credentials", Str("AWS credentials not configured"))
       ELSE tpc' = "convert" /\ UNCHANGED <<svars, strm, tresult, bucketArg>>
    /\ UNCHANGED <<cvars, vvars, bret, bk, log>>

\* faulty variant: the result of the conversion is not tested
StreamingConvert_SkipsCheck(decoded) ==
    /\ tpc = "convert"
    /\ pcm' = convert_to_pcm(audio, detect_audio_format(audio), decoded)
    /\ tpc' = "start"
    /\ tr' = NewTr
    /\ log' = log \o <<"detect", "convert">>
    /\ UNCHANGED <<cvars, vvars, bret, bk, sess, sessTicks, waited, strm, tresult,
                   bucketArg>>

\* format detection and PCM conversion
StreamingConvert(decoded) ==
    /\ tpc = "convert"
    /\ LET audio_format == detect_audio_format(audio)
           pcm_audio == convert_to_pcm(audio, audio_format, decoded)
       IN IF pcm_audio = 0
          THEN FallbackOrError("conversion", Str("Failed to convert audio to PCM format"))
          ELSE /\ pcm' = pcm_audio
               /\ tpc' = "start"
               /\ tr' = NewTr
               /\ UNCHANGED <<sess, sessTicks, waited, strm, tresult, bucketArg>>
    /\ log' = log \o <<"detect", "convert">>
    /\ UNCHANGED <<cvars, vvars, bret, bk>>

\* start_streaming_transcription up to client.start_stream_transcription
StartStream(ok, msg) ==
    /\ tpc = "start"
    /\ Logged("start_stream")
    /\ IF ok
       THEN /\ tpc' = "session"
            /\ sess' = NewSess
            /\ sessTicks' = 0
            /\ UNCHANGED <<pcm, tr, waited, strm, tresult, bucketArg>>
       ELSE FallbackOrError("session_start", msg)
    /\ UNCHANGED <<cvars, vvars, bret, bk>>

-----------------------------------------------------------------------------
(* streaming_transcribe_client.py: the session awaited by                  *)
(* asyncio.gather(process_audio(), handler.handle_events())                *)

\* process_audio: the next chunk of audio_stream() is sent; a failed send is skipped
SendChunk(ok) ==
    /\ tpc = "session"
    /\ ~sess.procDone
    /\ sess.count < NumChunks(pcm)
    /\ LET chunk == [at |-> sess.count * chunk_size, len |-> ChunkLen(pcm, sess.count)]
       IN sess' = [sess EXCEPT !.count = @ + 1,
                               !.sent = IF chunk.len > 0 /\ ok THEN Append(@, chunk) ELSE @]
    /\ UNCHANGED <<cvars, vvars, tpc, pcm, tr, sessTicks, waited, strm, bucketArg, bret,
                   bk, tresult, log>>

\* process_audio after its loop: no chunk at all is an error, else end_stream()
EndStream(ok, msg) ==
    /\ tpc = "session"
    /\ ~sess.procDone
    /\ sess.count = NumChunks(pcm)
    /\ IF sess.count = 0
       THEN /\ tr' = on_error(tr, Str("No audio data received"))
            /\ sess' = [sess EXCEPT !.procDone = TRUE]
       ELSE IF ok
       THEN /\ sess' = [sess EXCEPT !.procDone = TRUE, !.ended = @ + 1]
            /\ UNCHANGED tr
       ELSE /\ tr' = on_error(tr, msg)
            /\ sess' = [sess EXCEPT !.procDone = TRUE]
    /\ UNCHANGED <<cvars, vvars, tpc, pcm, sessTicks, waited, strm, bucketArg, bret, bk,
                   tresult, log>>

\* EventHandler.handle_transcript_event for one result with one alternative
handle_transcript_event(d, is_partial, transcript) ==
    IF is_partial
    THEN IF Strip(transcript) # <<>> THEN on_transcription(d, transcript) ELSE d
    ELSE IF Strip(transcript) # <<>> THEN on_transcription(d, transcript) ELSE d

TranscriptEvent(is_partial, transcript) ==
    /\ tpc = "session"
    /\ ~sess.handlerDone
    /\ tr' = handle_transcript_event(tr, is_partial, transcript)
    /\ sess' = IF Strip(transcript) = <<>> THEN sess
               ELSE [sess EXCEPT !.finals = @ \/ ~is_partial,
                                 !.origin = IF is_partial THEN "partial" ELSE "final",
                                 !.last = transcript]
    /\ UNCHANGED <<cvars, vvars, tpc, pcm, sessTicks, waited, strm, bucketArg, bret,
                   bk, tresult, log>>

\* the remote end closes the event stream: handle_events() returns
StreamClosed ==
    /\ tpc = "session"
    /\ ~sess.handlerDone
    /\ sess' = [sess EXCEPT !.handlerDone = TRUE]
    /\ UNCHANGED <<cvars, vvars, tpc, pcm, tr, sessTicks, waited, strm, bucketArg, bret,
                   bk, tresult, log>>

\* handle_events() raises: gather raises, start_streaming_transcription returns
\* success=False and _transcribe_audio_streaming takes its "not success" branch
HandlerRaises(msg) ==
    /\ tpc = "session"
    /\ ~sess.handlerDone
    /\ FallbackOrError("session_start", msg)
    /\ UNCHANGED <<cvars, vvars, bret, bk, log>>

\* wall-clock time passes while the session is awaited
SessionTick ==
    /\ tpc = "session"
    /\ sessTicks < MaxSessionTicks
    /\ sessTicks' = sessTicks + 1
    /\ UNCHANGED <<cvars, vvars, tpc, pcm, tr, sess, waited, strm, bucketArg, bret, bk,
                   tresult, log>>

\* gather returns, start_streaming_transcription returns success=True, and
\* _transcribe_audio_streaming reads start_time
SessionReturn ==
    /\ tpc = "session"
    /\ sess.procDone
    /\ sess.handlerDone
    /\ tpc' = "wait"
    /\ waited' = 0
    /\ UNCHANGED <<cvars, vvars, pcm, tr, sess, sessTicks, strm, bucketArg, bret, bk,
                   tresult, log>>

-----------------------------------------------------------------------------
(* transcribe_client.py: the wait loop of _transcribe_audio_streaming *)

\* while not completed: not yet timed out, sleep one polling step
WaitSleep ==
    /\ tpc = "wait"
    /\ ~tr.completed
    /\ ~(waited > StreamingTimeout)
    /\ waited' = waited + 1
    /\ UNCHANGED <<cvars, vvars, tpc, pcm, tr, sess, sessTicks, strm, bucketArg, bret, bk,
                   tresult, log>>

\* faulty variant: at the timeout the text held so far is returned as a success
WaitTimeout_EmptySuccess ==
    /\ tpc = "wait"
    /\ ~tr.completed
    /\ waited > StreamingTimeout
    /\ Logged("stop_live")
    /\ strm' = [outcome |-> "done", error |-> Absent]
    /\ ReleaseLocals
    /\ Return(StreamingOk(tr.text))
    /\ UNCHANGED <<cvars, vvars, bret, bk, bucketArg>>

\* while not completed: time.time() - start_time > timeout
WaitTimeout ==
    /\ tpc = "wait"
    /\ ~tr.completed
    /\ waited > StreamingTimeout
    /\ Logged("stop_live")
    /\ FallbackOrError("timeout", Str("Streaming transcription timeout"))
    /\ UNCHANGED <<cvars, vvars, bret, bk>>

\* faulty variant: a transcript that was delivered is returned despite the error
WaitCompleted_PrefersText ==
    /\ tpc = "wait"
    /\ tr.completed
    /\ Logged("stop_live")
    /\ IF tr.error # Absent /\ tr.text = <<>>
       THEN FallbackOrError("error_callback", tr.error)
       ELSE /\ strm' = [outcome |-> "done", error |-> Absent]
            /\ ReleaseLocals
            /\ Return(StreamingOk(tr.text))
            /\ UNCHANGED bucketArg
    /\ UNCHANGED <<cvars, vvars, bret, bk>>

\* the loop ends: stop, then the error check, then the successful return
WaitCompleted ==
    /\ tpc = "wait"
    /\ tr.completed
    /\ Logged("stop_live")
    /\ IF tr.error # Absent
       THEN FallbackOrError("error_callback", tr.error)
       ELSE /\ strm' = [outcome |-> "done", error |-> Absent]
            /\ ReleaseLocals
            /\ Return(StreamingOk(tr.text))
            /\ UNCHANGED bucketArg
    /\ UNCHANGED <<cvars, vvars, bret, bk>>

-----------------------------------------------------------------------------
(* transcribe_client.py: _transcribe_audio_bucket and _transcribe_audio *)

\* the count of status polls, which stops counting at MaxPolls
Polled(n) == Min(n + 1, MaxPolls)

\* _transcribe_audio_bucket returns d to its caller
BucketReturns(d) == bret' = d /\ tpc' = "bucket_ret"

\* _transcribe_audio returned text (also from its own except branch)
TranscribeAudioReturns(text) == BucketReturns(BucketOk(text))

\* the temporary file is written; without credentials the placeholder text is returned
BucketTempFile(ok, msg) ==
    /\ tpc = "bucket"
    /\ Logged("tempfile")
    /\ bk' = NewBk
    /\ IF ~ok
       THEN BucketReturns(Fail(msg))
       ELSE IF ~creds
       THEN TranscribeAudioReturns(TestTranscription)
       ELSE tpc' = "upload" /\ UNCHANGED bret
    /\ UNCHANGED <<cvars, vvars, pcm, tr, sess, sessTicks, waited, strm, bucketArg,
                   tresult>>

\* faulty variant: the job is submitted whether or not the upload succeeded
BucketUpload_IgnoresFailure(ok, msg) ==
    /\ tpc = "upload"
    /\ Logged("upload")
    /\ bk' = [bk EXCEPT !.s3obj = IF ok THEN "stored" ELSE @]
    /\ tpc' = "start_job"
    /\ UNCHANGED <<cvars, vvars, pcm, tr, sess, sessTicks, waited, strm, bucketArg, bret,
                   tresult>>

\* s3_client.upload_file
BucketUpload(ok, msg) ==
    /\ tpc = "upload"
    /\ Logged("upload")
    /\ IF ok
       THEN /\ bk' = [bk EXCEPT !.s3obj = "stored"]
            /\ tpc' = "start_job"
            /\ UNCHANGED bret
       ELSE /\ TranscribeAudioReturns(ErrorText(msg))
            /\ UNCHANGED bk
    /\ UNCHANGED <<cvars, vvars, pcm, tr, sess, sessTicks, waited, strm, bucketArg,
                   tresult>>

\* client.start_transcription_job
BucketStartJob(ok, msg) ==
    /\ tpc = "start_job"
    /\ Logged("start_job")
    /\ IF ok
       THEN tpc' = "poll" /\ UNCHANGED bret
       ELSE TranscribeAudioReturns(ErrorText(msg))
    /\ UNCHANGED <<cvars, vvars, pcm, tr, sess, sessTicks, waited, strm, bucketArg, bk,
                   tresult>>

\* one turn of the polling loop: client.get_transcription_job and the status test
BucketPoll(ok, msg, status, reason) ==
    /\ tpc = "poll"
    /\ log' = IF bk.polls < MaxPolls THEN Append(log, "poll") ELSE log
    /\ IF ~ok
       THEN /\ TranscribeAudioReturns(ErrorText(msg))
            /\ bk' = [bk EXCEPT !.polls = Polled(@)]
       ELSE /\ bk' = [bk EXCEPT !.polls = Polled(@), !.status = status]
            /\ IF status = "COMPLETED"
               THEN tpc' = "fetch" /\ UNCHANGED bret
               ELSE IF status = "FAILED"
               THEN TranscribeAudioReturns(ErrorText(JobFailed(reason)))
               ELSE tpc' = "poll_sleep" /\ UNCHANGED bret
    /\ UNCHANGED <<cvars, vvars, pcm, tr, sess, sessTicks, waited, strm, bucketArg,
                   tresult>>

\* await asyncio.sleep(2), then the next turn
BucketPollSleep ==
    /\ tpc = "poll_sleep"
    /\ tpc' = "poll"
    /\ UNCHANGED <<cvars, vvars, pcm, tr, sess, sessTicks, waited, strm, bucketArg, bret,
                   bk, tresult, log>>

\* requests.get(transcript_uri) and the parse of the transcript document
BucketFetch(ok, msg, text) ==
    /\ tpc = "fetch"
    /\ Logged("fetch")
    /\ IF ok
       THEN /\ bk' = [bk EXCEPT !.transcript = text]
            /\ tpc' = "delete"
            /\ UNCHANGED bret
       ELSE /\ TranscribeAudioReturns(ErrorText(msg))
            /\ UNCHANGED bk
    /\ UNCHANGED <<cvars, vvars, pcm, tr, sess, sessTicks, waited, strm, bucketArg,
                   tresult>>

\* s3_client.delete_object (a failure is printed), then return transcription
BucketDelete(ok) ==
    /\ tpc = "delete"
    /\ Logged("delete")
    /\ bk' = [bk EXCEPT !.s3obj = IF ok THEN "deleted" ELSE @]
    /\ TranscribeAudioReturns(bk.transcript)
    /\ UNCHANGED <<cvars, vvars, pcm, tr, sess, sessTicks, waited, strm, bucketArg,
                   tresult>>

\* return await self._transcribe_audio_bucket(audio_data)
ReturnAwaitBucket(d) == d

\* faulty variant: a failed bucket attempt in bucket mode is followed by a streaming attempt
BucketReturn_TriesStreaming ==
    /\ tpc = "bucket_ret"
    /\ IF ~bret.success /\ mode = "bucket" /\ Len(bucketArg) = 1
       THEN tpc' = "streaming" /\ UNCHANGED tresult
       ELSE Return(ReturnAwaitBucket(bret))
    /\ UNCHANGED <<cvars, vvars, pcm, tr, sess, sessTicks, waited, strm, bucketArg, bret,
                   bk, log>>

BucketReturn ==
    /\ tpc = "bucket_ret"
    /\ Return(ReturnAwaitBucket(bret))
    /\ UNCHANGED <<cvars, vvars, pcm, tr, sess, sessTicks, waited, strm, bucketArg, bret,
                   bk, log>>

-----------------------------------------------------------------------------
(* data_handler.py *)

\* str.lower() of one token
LowerTok(t) ==
    CASE t \in {"Japan", "JAPAN"} -> "japan"
      [] t \in {"Georgia", "GEORGIA"} -> "georgia"
      [] t \in {"California", "CALIFORNIA"} -> "california"
      [] t = "Atlantis" -> "atlantis"
      [] t = "jaPAN" -> "japan"
      [] t \in {"New", "NEW"} -> "new"
      [] t \in {"York", "YORK"} -> "york"
      [] OTHER -> t

Lower(s) == [i \in 1..Len(s) |-> LowerTok(s[i])]

\* the "countries" and "states" lists of the two JSON documents
countries == << [name |-> <<"Japan">>, capital |-> <<"Tokyo">>],
                [name |-> <<"Georgia">>, capital |-> <<"Tbilisi">>] >>

states == << [name |-> <<"Georgia">>, capital |-> <<"Atlanta">>],
             [name |-> <<"California">>, capital |-> <<"Sacramento">>],
             [name |-> <<"New", " ", "York">>, capital |-> <<"Albany">>] >>

\* what becomes of opening and parsing a data file: it parses to an object, it is
\* not there (FileNotFoundError), it is not JSON (json.JSONDecodeError), it cannot
\* be opened or decoded (PermissionError, UnicodeDecodeError), or it parses to a
\* value that is not an object (data.get raises AttributeError)
FileStates == {"ok", "missing", "invalid", "unreadable", "not_object"}

\* the two except clauses: the table, or the exception that leaves the loader
Loaded(file, table) ==
    CASE file = "ok" -> [raised |-> FALSE, table |-> table]
      [] file \in {"missing", "invalid"} -> [raised |-> FALSE, table |-> <<>>]
      [] OTHER -> [raised |-> TRUE, table |-> <<>>]

_load_countries == Loaded(countriesFile, countries)

_load_states == Loaded(statesFile, states)

NotConstructed == [status |-> "none", countries |-> <<>>, states |-> <<>>]

\* the data handler of a server whose two data files load
Ready == [status |-> "ready", countries |-> countries, states |-> states]

\* DataHandler.__init__, called by VoiceAgent.__init__
ConstructDataHandler ==
    /\ dh.status = "none"
    /\ dh' = IF _load_countries.raised
             THEN [NotConstructed EXCEPT !.status = "raised"]
             ELSE IF _load_states.raised
             THEN [NotConstructed EXCEPT !.status = "raised"]
             ELSE [status |-> "ready", countries |-> _load_countries.table,
                   states |-> _load_states.table]
    /\ UNCHANGED <<mode, fallback, creds, flow, audio, pvars, countriesFile, statesFile,
                   kvars, fe, tvars, vvars, log>>

\* for entry in table: if entry["name"].lower() == wanted: return entry["capital"]
RECURSIVE FirstMatch(_, _)
FirstMatch(table, wanted) ==
    IF table = <<>> THEN None
    ELSE IF Lower(Head(table).name) = wanted THEN Head(table).capital
    ELSE FirstMatch(Tail(table), wanted)

\* faulty variant: the query is lower-cased but not trimmed
find_country_capital_NoStrip(country_name) == FirstMatch(dh.countries, Lower(country_name))

find_country_capital(country_name) == FirstMatch(dh.countries, Strip(Lower(country_name)))

find_state_capital(state_name) == FirstMatch(dh.states, Strip(Lower(state_name)))

\* faulty variant: the state table is tried first
find_capital_StatesFirst(query) ==
    IF Truthy(find_state_capital(query)) THEN find_state_capital(query)
    ELSE IF Truthy(find_country_capital(query)) THEN find_country_capital(query)
    ELSE None

find_capital(query) ==
    IF Truthy(find_country_capital(query)) THEN find_country_capital(query)
    ELSE IF Truthy(find_state_capital(query)) THEN find_state_capital(query)
    ELSE None

-----------------------------------------------------------------------------
(* bedrock_client.py *)

\* str.split(sep)
RECURSIVE Split(_, _)
Split(s, sep) ==
    IF ~Contains(s, sep) THEN <<s>>
    ELSE LET i == CHOOSE k \in 1..Len(s) : s[k] = sep /\ \A j \in 1..(k - 1) : s[j] # sep
         IN <<SubSeq(s, 1, i - 1)>> \o Split(SubSeq(s, i + 1, Len(s)), sep)

\* sep.join(parts)
RECURSIVE Join(_, _)
Join(parts, sep) ==
    IF parts = <<>> THEN <<>>
    ELSE IF Len(parts) = 1 THEN parts[1]
    ELSE parts[1] \o <<sep>> \o Join(Tail(parts), sep)

\* response.startswith("CAPITAL_QUERY:")
StartsWithCapitalQuery(r) == Len(r) >= 2 /\ r[1] = "CAPITAL_QUERY" /\ r[2] = ":"

NotCapitalQuery(err) ==
    [is_capital_query |-> FALSE, query_type |-> Absent, entity |-> None, error |-> err]

\* faulty variant: the entity is the third segment only
_parse_intent_response_ThirdSegment(response) ==
    LET r == Strip(response)
        parts == Split(r, ":")
    IN IF StartsWithCapitalQuery(r) /\ Len(parts) >= 3
       THEN [is_capital_query |-> TRUE,
             query_type |-> parts[2],
             entity |-> Strip(parts[3]),
             error |-> None]
       ELSE NotCapitalQuery(None)

\* parts[1] and parts[2:] of the source are parts[2] and the rest from 3 here
_parse_intent_response(response) ==
    LET r == Strip(response)
        parts == Split(r, ":")
    IN IF StartsWithCapitalQuery(r) /\ Len(parts) >= 3
       THEN [is_capital_query |-> TRUE,
             query_type |-> parts[2],
             entity |-> Strip(Join(SubSeq(parts, 3, Len(parts)), ":")),
             error |-> None]
       ELSE NotCapitalQuery(None)

\* faulty variant: a failed model call is reported without its error
analyze_intent_SwallowsError(ok, msg, completion) ==
    IF ok THEN _parse_intent_response(completion) ELSE NotCapitalQuery(None)

\* analyze_intent: the model call raised, or its completion is parsed
analyze_intent(ok, msg, completion) ==
    IF ok THEN _parse_intent_response(completion) ELSE NotCapitalQuery(msg)

\* faulty variant: the template names the capital before the entity
generate_response_Swapped(entity, capital, ok, text) ==
    IF ok THEN Strip(text)
    ELSE Str("The capital of ") \o capital \o Str(" is ") \o entity \o Str(".")

\* generate_response: the stripped completion, or the template when the call raised
generate_response(entity, capital, ok, text) ==
    IF ok THEN Strip(text)
    ELSE Str("The capital of ") \o entity \o Str(" is ") \o capital \o Str(".")

\* completions of the intent prompt
Completions == { <<"CAPITAL_QUERY", ":", "COUNTRY", ":", "Japan">>,
                 <<"CAPITAL_QUERY", ":", "STATE", ":", " ", "GEORGIA", " ">>,
                 <<"CAPITAL_QUERY", ":", "COUNTRY", ":", "Atlantis">>,
                 <<"CAPITAL_QUERY", ":", "COUNTRY", ":">>,
                 <<"CAPITAL_QUERY", ":", "Japan">>,
                 <<"OTHER_QUERY">> }

\* completions of the confirmation prompt
Confirmations == { <<" ", "The capital is", " ", "Tokyo", ".", " ">>, <<"Happy to help!">> }

-----------------------------------------------------------------------------
(* voice_agent.py *)

UNSUPPORTED_QUERY_RESPONSE ==
    Str("I'm sorry, but I can only provide information about country and state capitals. For other questions, this information is not available.")

CouldNotUnderstand == Str("I'm sorry, I couldn't understand your voice input.")
CouldNotTranscribe == Str("I'm sorry, I couldn't transcribe your voice input.")
TroubleProcessing == Str("I'm sorry, I'm having trouble processing your request right now.")
WhichEntity ==
    Str("I'm sorry, I couldn't understand which country or state you're asking about.")
\* faulty variant: the sentence does not name the entity
NoInformation_Unnamed(entity) ==
    Str("I'm sorry, I don't have information about the capital of that place.")

NoInformation(entity) ==
    Str("I'm sorry, I don't have information about the capital of ") \o entity \o Str(".")

\* a result dict of the coordinator; a key the code does not set is Absent
Result(response, success, error) ==
    [response |-> response, success |-> success, error |-> error,
     query_type |-> Absent, entity |-> Absent, capital |-> Absent,
     transcribed_text |-> Absent, audio_bytes |-> Absent, audio_file_path |-> Absent]

TextResult(response, query_type, entity, capital) ==
    [Result(response, TRUE, Absent) EXCEPT
        !.query_type = query_type, !.entity = entity, !.capital = capital]

NoVoiceResult == Result(Absent, FALSE, Absent)

NoIntent == NotCapitalQuery(Absent)

\* process_text_input reaches generate_response: a capital query whose entity is found
CapitalFound(i) ==
    /\ ~Truthy(i.error)
    /\ i.is_capital_query
    /\ Truthy(i.entity)
    /\ Truthy(find_capital(i.entity))

\* process_text_input from the return of analyze_intent to its own return, on the
\* branches that do not reach generate_response
\* faulty variant: a query that is not a capital query is asked for its entity
TextFlow_AsksEntity(i) ==
    IF Truthy(i.error) THEN Result(TroubleProcessing, FALSE, i.error)
    ELSE IF i.is_capital_query /\ Truthy(i.entity)
    THEN TextResult(NoInformation(i.entity), i.query_type, i.entity, None)
    ELSE TextResult(WhichEntity, Str("unknown"), None, None)

TextFlow(i) ==
    IF Truthy(i.error) THEN Result(TroubleProcessing, FALSE, i.error)
    ELSE IF i.is_capital_query
    THEN IF Truthy(i.entity)
         THEN TextResult(NoInformation(i.entity), i.query_type, i.entity, None)
         ELSE TextResult(WhichEntity, Str("unknown"), None, None)
    ELSE TextResult(UNSUPPORTED_QUERY_RESPONSE, Str("other"), None, None)

\* the two checks of the voice flows on the result of transcribe_audio_bytes
\* faulty variant: a failed transcription is reported with the default error text
VoiceTranscribed_DefaultError ==
    /\ vpc = "transcribe"
    /\ tpc = "done"
    /\ IF ~tresult.success
       THEN /\ vresult' = Result(CouldNotUnderstand, FALSE, Str("Transcription failed"))
            /\ vpc' = "done"
       ELSE IF ~Truthy(tresult.transcription)
       THEN /\ vresult' = Result(CouldNotTranscribe, FALSE, Str("No transcription result"))
            /\ vpc' = "done"
       ELSE /\ vpc' = "classify"
            /\ UNCHANGED vresult
    /\ UNCHANGED <<cvars, tvars, intent, textres, synthArg, polly, log>>

\* faulty variant: the text of a successful transcription is not tested
VoiceTranscribed_RunsTextFlow ==
    /\ vpc = "transcribe"
    /\ tpc = "done"
    /\ IF ~tresult.success
       THEN /\ vresult' = Result(CouldNotUnderstand, FALSE,
                                 Get(tresult, "error", Str("Transcription failed")))
            /\ vpc' = "done"
       ELSE /\ vpc' = "classify"
            /\ UNCHANGED vresult
    /\ UNCHANGED <<cvars, tvars, intent, textres, synthArg, polly, log>>

VoiceTranscribed ==
    /\ vpc = "transcribe"
    /\ tpc = "done"
    /\ IF ~tresult.success
       THEN /\ vresult' = Result(CouldNotUnderstand, FALSE,
                                 Get(tresult, "error", Str("Transcription failed")))
            /\ vpc' = "done"
       ELSE IF ~Truthy(tresult.transcription)
       THEN /\ vresult' = Result(CouldNotTranscribe, FALSE, Str("No transcription result"))
            /\ vpc' = "done"
       ELSE /\ vpc' = "classify"
            /\ UNCHANGED vresult
    /\ UNCHANGED <<cvars, tvars, intent, textres, synthArg, polly, log>>

\* process_text_input: analyze_intent, then the lookup
AnalyzeIntent(ok, msg, completion) ==
    /\ vpc = "classify"
    /\ LET i == analyze_intent(ok, msg, completion)
           looked == ~Truthy(i.error) /\ i.is_capital_query /\ Truthy(i.entity)
       IN /\ intent' = i
          /\ log' = log \o <<"classify">> \o (IF ok THEN <<>> ELSE <<"classify_error">>)
                       \o (IF looked THEN <<"lookup">> ELSE <<>>)
          /\ IF CapitalFound(i)
             THEN vpc' = "generate" /\ UNCHANGED textres
             ELSE vpc' = "text_done" /\ textres' = TextFlow(i)
    /\ UNCHANGED <<cvars, tvars, vresult, synthArg, polly>>

\* faulty variant: the table is chosen by the query type of the classifier
GenerateResponse_ByQueryType(ok, text) ==
    /\ vpc = "generate"
    /\ log' = log \o <<"generate">> \o (IF ok THEN <<>> ELSE <<"generate_error">>)
    /\ LET capital == IF intent.query_type = Str("STATE")
                      THEN find_state_capital(intent.entity)
                      ELSE find_country_capital(intent.entity)
       IN textres' = TextResult(generate_response(intent.entity, capital, ok, text),
                                intent.query_type, intent.entity, capital)
    /\ vpc' = "text_done"
    /\ UNCHANGED <<cvars, tvars, intent, vresult, synthArg, polly>>

\* process_text_input: generate_response and the successful return
GenerateResponse(ok, text) ==
    /\ vpc = "generate"
    /\ log' = log \o <<"generate">> \o (IF ok THEN <<>> ELSE <<"generate_error">>)
    /\ LET capital == find_capital(intent.entity)
       IN textres' = TextResult(generate_response(intent.entity, capital, ok, text),
                                intent.query_type, intent.entity, capital)
    /\ vpc' = "text_done"
    /\ UNCHANGED <<cvars, tvars, intent, vresult, synthArg, polly>>

\* if not text_result.get("success"): return text_result
VoiceTextFailed ==
    /\ vpc = "text_done"
    /\ ~textres.success
    /\ vresult' = textres
    /\ vpc' = "done"
    /\ UNCHANGED <<cvars, tvars, intent, textres, synthArg, polly, log>>

\* polly_client.synthesize_speech_bytes and synthesize_speech: the audio under its
\* key, or success=False with the error and a null audio
NoPolly == [success |-> FALSE, error |-> Absent, audio |-> Absent]

synthesize_speech(ok, msg) ==
    IF ok THEN [success |-> TRUE, error |-> Absent, audio |-> Str("mp3")]
    ELSE [success |-> FALSE, error |-> msg, audio |-> None]

\* response_text = text_result.get("response", ...)
ResponseText(t) == Get(t, "response", Str("I'm sorry, I couldn't process your request."))

\* the key of the audio reference: audio_bytes in process_voice_input,
\* audio_file_path in process_voice_with_audio_response
AudioKey(f) == IF f = "process_voice_input" THEN "audio_bytes" ELSE "audio_file_path"

\* the return of the voice flows after the synthesizer call
\* faulty variant: a failed synthesis is returned without an error
Synthesized_NoError(f, t, transcribed_text, polly_result) ==
    IF ~polly_result.success
    THEN [Result(ResponseText(t), TRUE, Absent) EXCEPT ![AudioKey(f)] = None]
    ELSE [Result(ResponseText(t), TRUE, Absent) EXCEPT
             ![AudioKey(f)] = Get(polly_result, "audio", None),
             !.transcribed_text = transcribed_text,
             !.query_type = t.query_type, !.entity = t.entity, !.capital = t.capital]

Synthesized(f, t, transcribed_text, polly_result) ==
    IF ~polly_result.success
    THEN [Result(ResponseText(t), TRUE, Str("Speech synthesis failed")) EXCEPT
             ![AudioKey(f)] = None]
    ELSE [Result(ResponseText(t), TRUE, Absent) EXCEPT
             ![AudioKey(f)] = Get(polly_result, "audio", None),
             !.transcribed_text = transcribed_text,
             !.query_type = t.query_type, !.entity = t.entity, !.capital = t.capital]

\* step 3 of the voice flows: the synthesizer is called with response_text
\* faulty variant: the synthesizer is given the transcribed text
Synthesize_SpeaksTranscript(ok, msg) ==
    /\ vpc = "text_done"
    /\ textres.success
    /\ Logged("synthesize")
    /\ synthArg' = Append(synthArg, tresult.transcription)
    /\ polly' = synthesize_speech(ok, msg)
    /\ vresult' = Synthesized(flow, textres, tresult.transcription, synthesize_speech(ok, msg))
    /\ vpc' = "done"
    /\ UNCHANGED <<cvars, tvars, intent, textres>>

Synthesize(ok, msg) ==
    /\ vpc = "text_done"
    /\ textres.success
    /\ Logged("synthesize")
    /\ synthArg' = Append(synthArg, ResponseText(textres))
    /\ polly' = synthesize_speech(ok, msg)
    /\ vresult' = Synthesized(flow, textres, tresult.transcription, synthesize_speech(ok, msg))
    /\ vpc' = "done"
    /\ UNCHANGED <<cvars, tvars, intent, textres>>

\* faulty variant: the handler hands the exception text back as the response
ProcessTextExcept_EchoesException(e) == Result(e, FALSE, e)

\* the except branches of process_text_input and of the two voice flows
ProcessTextExcept(e) ==
    Result(Str("I'm sorry, I encountered an error processing your request."), FALSE, e)

ProcessVoiceExcept(e) ==
    Result(Str("I'm sorry, I encountered an error processing your voice input."), FALSE, e)

\* str(e) of an exception a collaborator lets through, e.g. the KeyError of a table
\* entry without a name, or an exception without arguments
RaisedMsgs == {<<"'name'">>, <<>>}

\* await self.transcribe_client.transcribe_audio_bytes(audio_data) raises
TranscribeRaises(e) ==
    /\ vpc = "transcribe"
    /\ tpc = "entry"
    /\ tpc' = "done"
    /\ vresult' = ProcessVoiceExcept(e)
    /\ vpc' = "done"
    /\ UNCHANGED <<cvars, pcm, tr, sess, sessTicks, waited, strm, bucketArg, bret, bk,
                   tresult, intent, textres, synthArg, polly, log>>

\* await self.bedrock_client.analyze_intent(text) raises
ClassifyRaises(e) ==
    /\ vpc = "classify"
    /\ Logged("classify")
    /\ textres' = ProcessTextExcept(e)
    /\ vpc' = "text_done"
    /\ UNCHANGED <<cvars, tvars, intent, vresult, synthArg, polly>>

\* self.data_handler.find_capital(entity) raises
LookupRaises(ok, msg, completion, e) ==
    /\ vpc = "classify"
    /\ LET i == analyze_intent(ok, msg, completion)
       IN /\ ~Truthy(i.error) /\ i.is_capital_query /\ Truthy(i.entity)
          /\ intent' = i
    /\ log' = log \o <<"classify", "lookup">>
    /\ textres' = ProcessTextExcept(e)
    /\ vpc' = "text_done"
    /\ UNCHANGED <<cvars, tvars, vresult, synthArg, polly>>

\* await self.bedrock_client.generate_response(...) raises
GenerateRaises(e) ==
    /\ vpc = "generate"
    /\ Logged("generate")
    /\ textres' = ProcessTextExcept(e)
    /\ vpc' = "text_done"
    /\ UNCHANGED <<cvars, tvars, intent, vresult, synthArg, polly>>

\* the synthesizer call raises
SynthesizeRaises(e) ==
    /\ vpc = "text_done"
    /\ textres.success
    /\ Logged("synthesize")
    /\ synthArg' = Append(synthArg, ResponseText(textres))
    /\ vresult' = ProcessVoiceExcept(e)
    /\ vpc' = "done"
    /\ UNCHANGED <<cvars, tvars, intent, textres, polly>>

-----------------------------------------------------------------------------
(* The lookup functions and the parser called on their own *)

\* whitespace around a query or a response
Pads == {<<>>, <<" ">>, <<"\t", " ">>}

\* names asked for: stored names in several spellings, a name of no table, parts of
\* a stored name, a stored name with other whitespace inside, a near miss, nothing
Words == { <<"Japan">>, <<"JAPAN">>, <<"jaPAN">>, <<"Georgia">>, <<"georgia">>,
           <<"California">>, <<"New", " ", "York">>, <<"NEW", " ", "york">>,
           <<"Atlantis">>, <<"New">>, <<"York">>, <<"New", "\t", "York">>,
           <<"Japon">>, <<>> }

Queries == {pre \o w \o post : pre \in Pads, post \in Pads, w \in Words}

ParseTypes == {"COUNTRY", "STATE"}

\* names a completion carries: [pre, core, post] is the name pre \o core \o post
ParseNames ==
    {[pre |-> a, core |-> c, post |-> b] :
        a \in {<<>>, <<" ">>}, b \in {<<>>, <<" ">>},
        c \in {<<"France">>, <<"St", ":", "Louis">>, <<"New", " ", "York">>, <<>>}}

NameText(n) == n.pre \o n.core \o n.post

\* the completion 'CAPITAL_QUERY:T:N'
Shape(T, N) == <<"CAPITAL_QUERY", ":", T, ":">> \o N

\* completions handed to the parser: the capital-query shape over the types and
\* names, OTHER_QUERY, and completions of other shapes
Responses ==
    {Shape(T, NameText(n)) : T \in ParseTypes, n \in ParseNames}
    \cup { <<"OTHER_QUERY">>, <<" ", "OTHER_QUERY", "\n">>,
           <<"CAPITAL_QUERY", ":", "France">>,
           <<"CAPITAL_QUERY", ":", "PLANET", ":", "Mars">>,
           <<"CAPITAL_QUERY", ":", " ", "COUNTRY", ":", "France">>,
           <<"capital_query", ":", "COUNTRY", ":", "France">>,
           <<"OTHER_QUERY", ":", "COUNTRY", ":", "France">>,
           <<"CAPITAL_QUERY">>,
           <<"The capital of France is Paris.">>,
           <<>> }

\* byte strings handed to the detector: every header on a payload long enough to
\* hold it, a three-byte payload and the empty one
DetectInputs == {[len |-> n, header |-> h] : n \in {12, MinAudioBytes}, h \in Headers}
                \cup {[len |-> 3, header |-> "ID3"], [len |-> 3, header |-> "other"], NoAudio}

\* detection followed by the conversion, as _transcribe_audio_streaming calls them
ApplyDetectAudioFormat(decoded) ==
    /\ fn = "none"
    /\ audio \in DetectInputs
    /\ fn' = "detect_audio_format"
    /\ found' = Str(detect_audio_format(audio))
    /\ pcm' = convert_to_pcm(audio, detect_audio_format(audio), decoded)
    /\ UNCHANGED <<mode, fallback, creds, flow, audio, tpc, tr, sess, sessTicks, waited,
                   strm, bucketArg, bret, bk, tresult, vvars, log, arg, parsed, dvars,
                   kvars, fe>>

ApplyFindCountryCapital ==
    /\ fn = "none"
    /\ dh.status = "ready"
    /\ arg \in Queries
    /\ fn' = "find_country_capital"
    /\ found' = find_country_capital(arg)
    /\ UNCHANGED <<mode, fallback, creds, flow, audio, tvars, vvars, log, arg, parsed, dvars, kvars, fe>>

ApplyFindStateCapital ==
    /\ fn = "none"
    /\ dh.status = "ready"
    /\ arg \in Queries
    /\ fn' = "find_state_capital"
    /\ found' = find_state_capital(arg)
    /\ UNCHANGED <<mode, fallback, creds, flow, audio, tvars, vvars, log, arg, parsed, dvars, kvars, fe>>

ApplyFindCapital ==
    /\ fn = "none"
    /\ dh.status = "ready"
    /\ arg \in Queries
    /\ fn' = "find_capital"
    /\ found' = find_capital(arg)
    /\ UNCHANGED <<mode, fallback, creds, flow, audio, tvars, vvars, log, arg, parsed, dvars, kvars, fe>>

ApplyParseIntentResponse ==
    /\ fn = "none"
    /\ arg \in Responses
    /\ fn' = "_parse_intent_response"
    /\ parsed' = _parse_intent_response(arg)
    /\ UNCHANGED <<mode, fallback, creds, flow, audio, tvars, vvars, log, arg, found, dvars, kvars, fe>>

-----------------------------------------------------------------------------
(* The specification *)

\* no request has arrived yet
-----------------------------------------------------------------------------
(* Calls that share the one TranscribeClient and its StreamingTranscribeClient *)

\* the two calls of transcribe_audio_bytes in progress together
Calls == {"call1", "call2"}

\* what the audio of each call says, and what the live audio says
SessionText(c) ==
    CASE c = "call1" -> <<"what is", " ", "the capital of Japan">>
      [] c = "call2" -> <<"what is", " ", "the capital of Peru">>
      [] OTHER -> <<"hello">>

\* StreamingTranscribeClient.__init__; a callback is named by the caller whose
\* closures it belongs to; active_stream is not set before a live session starts
NewClient == [transcription_callback |-> "none", error_callback |-> "none",
              active_stream |-> "none", is_streaming_active |-> FALSE]

\* a call: its position, the owner of the callback its EventHandler was built with,
\* its closure dict, the sessions whose events reached its callbacks, the ends of
\* the two coroutines of its session, and its result
NewCall == [pc |-> "idle", handler |-> "none", tr |-> NewTr, heard |-> {},
            procDone |-> FALSE, handlerDone |-> FALSE, result |-> NoResult]

\* the live session: its position, the owner of its handler's callback, whether
\* end_stream() was sent on its stream and by whom, the outcome of the last chunk
\* handed to send_audio_chunk_to_stream, and the sessions its own callback heard
NoLive == [pc |-> "none", handler |-> "none", ended |-> FALSE, endedBy |-> "none",
           lastSend |-> "none", heard |-> {}]

NoSessions ==
    /\ client = NewClient
    /\ calls = [c \in Calls |-> NewCall]
    /\ live = NoLive

\* everything but the shared client, the calls and the live session
rvars == <<mode, fallback, creds, flow, audio, pvars, dvars, tvars, vvars, log, fe>>

\* callback(text) or callback(error) of the closures of `owner`, for session `from`
Deliver(owner, from, d) ==
    IF owner \in Calls
    THEN /\ calls' = [calls EXCEPT ![owner].tr = d, ![owner].heard = @ \cup {from}]
         /\ UNCHANGED live
    ELSE IF owner = "live"
    THEN /\ live' = [live EXCEPT !.heard = @ \cup {from}]
         /\ UNCHANGED calls
    ELSE UNCHANGED <<calls, live>>

\* start_streaming_transcription up to its first await: the callbacks are stored
CallStoreCallbacks(c) ==
    /\ calls[c].pc = "idle"
    /\ client' = [client EXCEPT !.transcription_callback = c, !.error_callback = c]
    /\ calls' = [calls EXCEPT ![c].pc = "connecting"]
    /\ UNCHANGED <<rvars, live>>

\* start_stream_transcription returns or raises; the EventHandler is built with the
\* callback the client holds now, and gather starts the two coroutines
CallStreamStarted(c, ok, msg) ==
    /\ calls[c].pc = "connecting"
    /\ calls' = IF ok
               THEN [calls EXCEPT ![c].pc = "session",
                                  ![c].handler = client.transcription_callback]
               ELSE [calls EXCEPT ![c].pc = "done", ![c].result = Fail(msg)]
    /\ UNCHANGED <<rvars, client, live>>

\* the session of call c produces a final result with what its audio says
CallTranscriptEvent(c) ==
    /\ calls[c].pc = "session"
    /\ ~calls[c].handlerDone
    /\ LET owner == calls[c].handler
       IN IF owner \in Calls
          THEN Deliver(owner, c, handle_transcript_event(calls[owner].tr, FALSE, SessionText(c)))
          ELSE Deliver(owner, c, NewTr)
    /\ UNCHANGED <<rvars, client>>

\* process_audio ends: end_stream() succeeds, or its error goes to the error
\* callback the client holds at that moment
CallAudioDone(c, ok, msg) ==
    /\ calls[c].pc = "session"
    /\ ~calls[c].procDone
    /\ LET owner == client.error_callback
           done == [calls EXCEPT ![c].procDone = TRUE]
       IN IF ok \/ owner \notin Calls
          THEN calls' = done
          ELSE calls' = [done EXCEPT ![owner].tr = on_error(@, msg),
                                     ![owner].heard = @ \cup {c}]
    /\ UNCHANGED <<rvars, client, live>>

\* the service closes the event stream of call c
CallStreamClosed(c) ==
    /\ calls[c].pc = "session"
    /\ ~calls[c].handlerDone
    /\ calls' = [calls EXCEPT ![c].handlerDone = TRUE]
    /\ UNCHANGED <<rvars, client, live>>

\* gather returns and the wait loop is entered
CallSessionReturn(c) ==
    /\ calls[c].pc = "session"
    /\ calls[c].procDone
    /\ calls[c].handlerDone
    /\ calls' = [calls EXCEPT ![c].pc = "wait"]
    /\ UNCHANGED <<rvars, client, live>>

\* StreamingTranscribeClient.stop_live_transcription called by `who`: end_stream()
\* on the stream the client holds as active, which is then forgotten
stop_live_transcription(who, ok) ==
    IF client.active_stream # "none" /\ ok
    THEN /\ live' = [live EXCEPT !.ended = TRUE, !.endedBy = who]
         /\ client' = [client EXCEPT !.active_stream = "none"]
    ELSE UNCHANGED <<live, client>>

\* the wait loop sees completed: stop_live_transcription, then the result
CallWaitCompleted(c, ok) ==
    /\ calls[c].pc = "wait"
    /\ calls[c].tr.completed
    /\ stop_live_transcription(c, ok)
    /\ calls' = [calls EXCEPT ![c].pc = "done",
                              ![c].result = IF calls[c].tr.error # Absent
                                            THEN Fail(calls[c].tr.error)
                                            ELSE StreamingOk(calls[c].tr.text)]
    /\ UNCHANGED rvars

\* the wait loop runs out of time: stop_live_transcription, then the timeout error
CallWaitTimeout(c, ok) ==
    /\ calls[c].pc = "wait"
    /\ ~calls[c].tr.completed
    /\ stop_live_transcription(c, ok)
    /\ calls' = [calls EXCEPT ![c].pc = "done",
                              ![c].result = Fail(Str("Streaming transcription timeout"))]
    /\ UNCHANGED rvars

\* start_real_time_transcription: test_connection, then start_live_transcription up
\* to its first await
LiveStoreCallbacks ==
    /\ live.pc = "none"
    /\ creds
    /\ client' = [client EXCEPT !.transcription_callback = "live", !.error_callback = "live"]
    /\ live' = [live EXCEPT !.pc = "connecting"]
    /\ UNCHANGED <<rvars, calls>>

\* start_stream_transcription returns or raises for the live session
LiveStarted(ok) ==
    /\ live.pc = "connecting"
    /\ IF ok
       THEN /\ client' = [client EXCEPT !.active_stream = "live", !.is_streaming_active = TRUE]
            /\ live' = [live EXCEPT !.pc = "open", !.handler = client.transcription_callback]
       ELSE /\ live' = [live EXCEPT !.pc = "failed"]
            /\ UNCHANGED client
    /\ UNCHANGED <<rvars, calls>>

\* send_audio_chunk_to_stream, then send_audio_chunk
LiveSendChunk(ok) ==
    /\ live.pc = "open"
    /\ client.is_streaming_active
    /\ live' = [live EXCEPT !.lastSend = IF client.active_stream = "none" THEN "refused"
                                         ELSE IF ok THEN "sent" ELSE "failed"]
    /\ UNCHANGED <<rvars, client, calls>>

\* the live session produces a final result
LiveTranscriptEvent ==
    /\ live.pc = "open"
    /\ ~live.ended
    /\ LET owner == live.handler
       IN IF owner \in Calls
          THEN Deliver(owner, "live", handle_transcript_event(calls[owner].tr, FALSE, SessionText("live")))
          ELSE Deliver(owner, "live", NewTr)
    /\ UNCHANGED <<rvars, client>>

\* stop_real_time_transcription
LiveStop(ok) ==
    /\ live.pc = "open"
    /\ client.is_streaming_active
    /\ IF client.active_stream # "none" /\ ok
       THEN /\ live' = [live EXCEPT !.ended = TRUE, !.endedBy = "live", !.pc = "stopped"]
            /\ client' = [client EXCEPT !.active_stream = "none", !.is_streaming_active = FALSE]
       ELSE /\ live' = [live EXCEPT !.pc = "stopped"]
            /\ client' = [client EXCEPT !.is_streaming_active = FALSE]
    /\ UNCHANGED <<rvars, calls>>

\* no call is in progress
Idle ==
    /\ tpc = "idle"
    /\ pcm = 0
    /\ tr = NewTr
    /\ sess = NewSess
    /\ sessTicks = 0
    /\ waited = 0
    /\ strm = NoStream
    /\ bucketArg = <<>>
    /\ bret = NoResult
    /\ bk = NewBk
    /\ tresult = NoResult
    /\ vpc = "idle"
    /\ intent = NoIntent
    /\ textres = NoVoiceResult
    /\ vresult = NoVoiceResult
    /\ synthArg = <<>>
    /\ polly = NoPolly
    /\ log = <<>>

NoRequest ==
    /\ flow = "none"
    /\ audio = NoAudio
    /\ Idle

Init ==
    /\ mode \in {"streaming", "bucket"}
    /\ fallback \in BOOLEAN
    /\ creds \in BOOLEAN
    /\ NoRequest
    /\ fn = "none"
    /\ arg = <<>>
    /\ found = Absent
    /\ parsed = NoIntent
    /\ countriesFile = "ok"
    /\ statesFile = "ok"
    /\ dh = Ready
    /\ NoSessions
    /\ fe = Direct

\* the steps of the request's own coroutines
ProgramStep ==
    \/ \E f \in Flows, a \in Audios : Request(f, a)
    \/ transcribe_audio_bytes
    \/ StreamingCredentials
    \/ \E decoded \in {0} \cup PcmLens : StreamingConvert(decoded)
    \/ \E ok \in BOOLEAN, msg \in StreamMsgs : StartStream(ok, msg)
    \/ \E ok \in BOOLEAN : SendChunk(ok)
    \/ \E ok \in BOOLEAN, msg \in StreamMsgs : EndStream(ok, msg)
    \/ SessionReturn
    \/ WaitSleep
    \/ WaitTimeout
    \/ WaitCompleted
    \/ \E ok \in BOOLEAN, msg \in FileMsgs : BucketTempFile(ok, msg)
    \/ \E ok \in BOOLEAN, msg \in ExcMsgs : BucketUpload(ok, msg)
    \/ \E ok \in BOOLEAN, msg \in ExcMsgs : BucketStartJob(ok, msg)
    \/ \E ok \in BOOLEAN, msg \in ExcMsgs, reason \in FailureReasons,
          status \in {"QUEUED", "IN_PROGRESS", "COMPLETED", "FAILED"} :
          BucketPoll(ok, msg, status, reason)
    \/ BucketPollSleep
    \/ \E ok \in BOOLEAN, msg \in ExcMsgs, text \in JobTranscripts : BucketFetch(ok, msg, text)
    \/ \E ok \in BOOLEAN : BucketDelete(ok)
    \/ BucketReturn
    \/ VoiceTranscribed
    \/ \E ok \in BOOLEAN, msg \in ModelMsgs, completion \in Completions :
          AnalyzeIntent(ok, msg, completion)
    \/ \E ok \in BOOLEAN, text \in Confirmations : GenerateResponse(ok, text)
    \/ VoiceTextFailed
    \/ \E ok \in BOOLEAN, msg \in ModelMsgs : Synthesize(ok, msg)

\* what the remote end of the streaming session does, and the passing of time
RemoteStep ==
    \/ \E is_partial \in BOOLEAN, transcript \in Transcripts :
          TranscriptEvent(is_partial, transcript)
    \/ StreamClosed
    \/ \E msg \in HandlerMsgs : HandlerRaises(msg)
    \/ SessionTick

Next == ProgramStep \/ RemoteStep

Spec == Init /\ [][Next]_vars

\* the event loop runs every coroutine step that is ready, and the remote end closes
\* an event stream it was left with; nothing is assumed of the transcription job,
\* which may stay IN_PROGRESS
FairSpec == Spec /\ WF_vars(ProgramStep) /\ WF_vars(StreamClosed)

\* a collaborator of the coordinator raises instead of returning
RaiseStep ==
    \/ \E e \in RaisedMsgs : TranscribeRaises(e)
    \/ \E e \in RaisedMsgs : ClassifyRaises(e)
    \/ \E ok \in BOOLEAN, msg \in ModelMsgs, completion \in Completions, e \in RaisedMsgs :
          LookupRaises(ok, msg, completion, e)
    \/ \E e \in RaisedMsgs : GenerateRaises(e)
    \/ \E e \in RaisedMsgs : SynthesizeRaises(e)

RaisingNext == Next \/ RaiseStep

\* the coordinator with collaborators that may also raise
RaisingSpec == Init /\ [][RaisingNext]_vars

\* one call of a lookup function or of the parser on an argument
PureInit ==
    /\ mode = "streaming"
    /\ fallback = TRUE
    /\ creds = TRUE
    /\ flow = "none"
    /\ Idle
    /\ fn = "none"
    /\ \/ arg \in Queries \cup Responses /\ audio = NoAudio
       \/ arg = <<>> /\ audio \in DetectInputs
    /\ found = Absent
    /\ parsed = NoIntent
    /\ countriesFile = "ok"
    /\ statesFile = "ok"
    /\ dh = Ready
    /\ NoSessions
    /\ fe = Direct

PureNext ==
    \/ \E decoded \in {0} \cup PcmLens : ApplyDetectAudioFormat(decoded)
    \/ ApplyFindCountryCapital
    \/ ApplyFindStateCapital
    \/ ApplyFindCapital
    \/ ApplyParseIntentResponse

PureSpec == PureInit /\ [][PureNext]_vars

\* a text request to the coordinator: process_text_input is entered with the text
TextRequest ==
    /\ flow = "none"
    /\ dh.status = "ready"
    /\ flow' = "process_text_input"
    /\ vpc' = "classify"
    /\ UNCHANGED <<mode, fallback, creds, audio, pvars, dvars, kvars, fe, tvars, intent,
                   textres, vresult, synthArg, polly, log>>

LoadArgs == {<<"Japan">>, <<"California">>, <<"Atlantis">>}

\* the server starts with data files in any condition, then serves one text request
\* and one lookup
LoadInit ==
    /\ mode = "bucket"
    /\ fallback = FALSE
    /\ creds = FALSE
    /\ NoRequest
    /\ fn = "none"
    /\ arg \in LoadArgs
    /\ found = Absent
    /\ parsed = NoIntent
    /\ countriesFile \in FileStates
    /\ statesFile \in FileStates
    /\ dh = NotConstructed
    /\ NoSessions
    /\ fe = Direct

LoadNext ==
    \/ ConstructDataHandler
    \/ TextRequest
    \/ \E ok \in BOOLEAN, msg \in ModelMsgs, completion \in Completions :
          AnalyzeIntent(ok, msg, completion)
    \/ \E ok \in BOOLEAN, text \in Confirmations : GenerateResponse(ok, text)
    \/ ApplyFindCountryCapital
    \/ ApplyFindStateCapital
    \/ ApplyFindCapital

LoadSpec == LoadInit /\ [][LoadNext]_vars

-----------------------------------------------------------------------------
(* livekit_client.py and the /ws endpoint of main.py *)

\* everything but the caller of the voice flow
nvars == <<mode, fallback, creds, flow, audio, pvars, dvars, kvars, tvars, vvars, log>>

\* connect_to_room
RoomConnect(ok) ==
    /\ fe.kind = "room"
    /\ ~fe.is_connected
    /\ ok
    /\ fe' = [fe EXCEPT !.is_connected = TRUE]
    /\ UNCHANGED nvars

\* disconnect_from_room
RoomDisconnect ==
    /\ fe.kind = "room"
    /\ fe.is_connected
    /\ fe' = [fe EXCEPT !.is_connected = FALSE]
    /\ UNCHANGED nvars

\* _on_audio_data_received is entered with a payload of a subscribed remote track
AudioDataReceived ==
    /\ fe.kind = "room"
    /\ fe.pc = "idle"
    /\ fe.is_connected
    /\ fe' = [fe EXCEPT !.pc = "received"]
    /\ UNCHANGED nvars

\* publish_audio_response: the number of tracks published after the call
publish_audio_response(ok) ==
    IF ~fe.is_connected THEN fe.published
    ELSE IF ok THEN fe.published + 1
    ELSE fe.published

\* LiveKitVoiceAgent.process_voice_input after the voice flow has returned
RoomProcessVoiceInput(exists, ok) ==
    /\ fe.kind = "room"
    /\ fe.pc = "received"
    /\ vpc = "done"
    /\ fe' = [fe EXCEPT !.pc = "returned",
                        !.published = IF Truthy(Read(vresult, "audio_file_path"))
                                         /\ fe.is_connected /\ exists
                                      THEN publish_audio_response(ok) ELSE @]
    /\ UNCHANGED nvars

\* _on_audio_data_received after process_voice_input has returned
OnAudioDataReceived(exists, ok) ==
    /\ fe.kind = "room"
    /\ fe.pc = "returned"
    /\ fe' = [fe EXCEPT !.pc = "handled",
                        !.published = IF vresult.success
                                         /\ Truthy(Read(vresult, "audio_file_path")) /\ exists
                                      THEN publish_audio_response(ok) ELSE @]
    /\ UNCHANGED nvars

\* websocket.receive_text and decode_base64_audio: a message that does not decode
\* raises into the inner except, which sends the failure reply
WsReceive(valid) ==
    /\ fe.kind = "ws"
    /\ fe.pc = "receive"
    /\ fe.replies = 0
    /\ fe' = IF valid THEN [fe EXCEPT !.pc = "decoded"]
             ELSE [fe EXCEPT !.replies = @ + 1, !.reply = "failure_decode"]
    /\ UNCHANGED nvars

\* json.dumps accepts the result: a bytes value is not JSON serializable
Serializable(r) == Read(r, "audio_bytes") = None

\* websocket.send_json(result); when it raises, the inner except sends the failure
\* reply, and the loop goes back to receive_text
WsSendJson ==
    /\ fe.kind = "ws"
    /\ fe.pc = "decoded"
    /\ vpc = "done"
    /\ fe' = [fe EXCEPT !.pc = "receive", !.replies = @ + 1,
                        !.reply = IF Serializable(vresult) THEN "result" ELSE "failure_send"]
    /\ UNCHANGED nvars

\* two streaming-mode calls and a live session on one client, fallback disabled
ConcInit ==
    /\ mode = "streaming"
    /\ fallback = FALSE
    /\ creds = TRUE
    /\ NoRequest
    /\ fn = "none"
    /\ arg = <<>>
    /\ found = Absent
    /\ parsed = NoIntent
    /\ countriesFile = "ok"
    /\ statesFile = "ok"
    /\ dh = Ready
    /\ NoSessions
    /\ fe = Direct

ConcNext ==
    \/ \E c \in Calls : CallStoreCallbacks(c)
    \/ \E c \in Calls, ok \in BOOLEAN, msg \in StreamMsgs : CallStreamStarted(c, ok, msg)
    \/ \E c \in Calls : CallTranscriptEvent(c)
    \/ \E c \in Calls, ok \in BOOLEAN, msg \in StreamMsgs : CallAudioDone(c, ok, msg)
    \/ \E c \in Calls : CallStreamClosed(c)
    \/ \E c \in Calls : CallSessionReturn(c)
    \/ \E c \in Calls, ok \in BOOLEAN : CallWaitCompleted(c, ok)
    \/ \E c \in Calls, ok \in BOOLEAN : CallWaitTimeout(c, ok)
    \/ LiveStoreCallbacks
    \/ \E ok \in BOOLEAN : LiveStarted(ok)
    \/ \E ok \in BOOLEAN : LiveSendChunk(ok)
    \/ LiveTranscriptEvent
    \/ \E ok \in BOOLEAN : LiveStop(ok)

ConcSpec == ConcInit /\ [][ConcNext]_vars

\* the LiveKit agent in a room: one payload received from a remote participant
RoomInit ==
    /\ mode \in {"streaming", "bucket"}
    /\ fallback \in BOOLEAN
    /\ creds \in BOOLEAN
    /\ NoRequest
    /\ fn = "none"
    /\ arg = <<>>
    /\ found = Absent
    /\ parsed = NoIntent
    /\ countriesFile = "ok"
    /\ statesFile = "ok"
    /\ dh = Ready
    /\ NoSessions
    /\ fe = [Direct EXCEPT !.kind = "room", !.pc = "idle"]

RoomNext ==
    \/ Next
    \/ \E ok \in BOOLEAN : RoomConnect(ok)
    \/ RoomDisconnect
    \/ AudioDataReceived
    \/ \E exists \in BOOLEAN, ok \in BOOLEAN : RoomProcessVoiceInput(exists, ok)
    \/ \E exists \in BOOLEAN, ok \in BOOLEAN : OnAudioDataReceived(exists, ok)

RoomSpec == RoomInit /\ [][RoomNext]_vars

\* the /ws endpoint after accept(): one message
WsInit ==
    /\ mode \in {"streaming", "bucket"}
    /\ fallback \in BOOLEAN
    /\ creds \in BOOLEAN
    /\ NoRequest
    /\ fn = "none"
    /\ arg = <<>>
    /\ found = Absent
    /\ parsed = NoIntent
    /\ countriesFile = "ok"
    /\ statesFile = "ok"
    /\ dh = Ready
    /\ NoSessions
    /\ fe = [Direct EXCEPT !.kind = "ws", !.pc = "receive"]

WsNext ==
    \/ Next
    \/ \E valid \in BOOLEAN : WsReceive(valid)
    \/ WsSendJson

WsSpec == WsInit /\ [][WsNext]_vars

-----------------------------------------------------------------------------
(* Properties of the transcription orchestrator *)

\* the streaming attempt failed by one of the five triggers
FallbackTriggers == {"credentials", "conversion", "session_start", "error_callback", "timeout"}

StreamingFailed == mode = "streaming" /\ strm.outcome \in FallbackTriggers

\* calls to a transcription backend: converter, streaming session, S3, batch jobs
BackendCalls == {"detect", "convert", "start_stream", "stop_live", "tempfile", "upload",
                 "start_job", "poll", "fetch", "delete"}

BucketCalls == {"tempfile", "upload", "start_job", "poll", "fetch", "delete"}

Called(ops) == \E i \in 1..Len(log) : log[i] \in ops

\* C1: in streaming mode with fallback enabled, once the streaming attempt has
\* failed by any of the five triggers the bucket path has been invoked exactly once,
\* with the audio of the request as received, and the call returns the dict the
\* bucket path returned, unchanged
C1_FallbackInvokesBucketOnce ==
    (StreamingFailed /\ fallback) =>
        /\ bucketArg = <<audio>>
        /\ tpc \in {"bucket", "upload", "start_job", "poll", "poll_sleep", "fetch",
                    "delete", "bucket_ret", "done"}
        /\ tpc = "done" => (Called({"tempfile"}) /\ tresult = bret /\ bret # NoResult)

C1_Witness ==
    /\ tpc = "done"
    /\ fallback
    /\ mode = "streaming"
    /\ strm.outcome = "error_callback"
    /\ bucketArg = <<audio>>
    /\ tresult = bret
    /\ tresult.success

\* the error each trigger is reported with when fallback is disabled
TriggerError(s) ==
    CASE s.outcome = "credentials" -> Str("AWS credentials not configured")
      [] s.outcome = "conversion" -> Str("Failed to convert audio to PCM format")
      [] s.outcome = "timeout" -> Str("Streaming transcription timeout")
      [] OTHER -> s.error

\* C2: in streaming mode with fallback disabled, the bucket path is never invoked
\* (no temporary file, upload or job), and a failed streaming attempt has returned
\* success=false with the error of its trigger: the three fixed messages, the
\* session-start error (a failed start_stream_transcription or an exception of
\* handle_events) or the message given to the error callback
C2_NoFallbackReturnsTriggerError ==
    (mode = "streaming" /\ ~fallback) =>
        /\ bucketArg = <<>>
        /\ ~Called(BucketCalls)
        /\ StreamingFailed =>
              /\ tpc = "done"
              /\ tresult = Fail(TriggerError(strm))
              /\ strm.outcome \in {"session_start", "error_callback"} =>
                    strm.error \in StreamMsgs \cup HandlerMsgs
                                   \cup {Str("No audio data received")}

C2_Witness ==
    /\ tpc = "done"
    /\ mode = "streaming"
    /\ ~fallback
    /\ strm.outcome = "timeout"
    /\ tresult = Fail(Str("Streaming transcription timeout"))
    /\ bucketArg = <<>>

\* the orchestrator is in STREAMING_ACTIVE: the session is started and the call has
\* neither returned nor entered the bucket path
StreamingActive == tpc \in {"session", "wait"}

\* C3: while the session is started and no callback has fired, the orchestrator
\* stays in the streaming-active state for at most STREAMING_TIMEOUT plus one
\* polling step, also when the event stream does not end
C3_LeavesActiveWithinTimeout ==
    (StreamingActive /\ ~tr.completed) => sessTicks + waited <= StreamingTimeout + 1

\* C4: a call with fewer than MinAudioBytes of audio returns the "too small" failure
\* and makes no backend call at all, whatever the mode and the fallback flag
C4_SmallAudioRejected ==
    (flow # "none" /\ audio.len < MinAudioBytes) =>
        /\ tpc \in {"entry", "done"}
        /\ ~Called(BackendCalls)
        /\ bucketArg = <<>>
        /\ strm = NoStream
        /\ tpc = "done" => tresult = Fail(Str("Audio data too small or invalid"))

C4_Witness ==
    /\ tpc = "done"
    /\ audio.len = MinAudioBytes - 1
    /\ mode = "streaming"
    /\ fallback
    /\ tresult = Fail(Str("Audio data too small or invalid"))
    /\ log = <<"transcribe">>

\* the state of the orchestrator's machine
OrchState ==
    CASE tpc \in {"idle", "entry"} -> "IDLE"
      [] tpc \in {"streaming", "convert", "start"} -> "STREAMING_ATTEMPT"
      [] tpc \in {"session", "wait"} -> "STREAMING_ACTIVE"
      [] tpc \in {"bucket", "upload", "start_job", "poll", "poll_sleep", "fetch", "delete",
                  "bucket_ret"} -> "BUCKET_ACTIVE"
      [] tpc = "done" /\ bucketArg # <<>> /\ tresult.success -> "BUCKET_DONE"
      [] tpc = "done" /\ bucketArg # <<>> /\ ~tresult.success -> "BUCKET_ERROR"
      [] tpc = "done" /\ bucketArg = <<>> /\ strm.outcome = "done" -> "STREAMING_DONE"
      [] tpc = "done" /\ bucketArg = <<>> /\ strm.outcome = "timeout" -> "STREAMING_TIMEOUT"
      [] tpc = "done" /\ bucketArg = <<>> /\ strm.outcome \in FallbackTriggers \ {"timeout"}
            -> "STREAMING_ERROR"
      [] OTHER -> "REJECTED"

\* the transitions of the stated machine, with the rejection by the size guard
OrchTransitions ==
    {<<"IDLE", "STREAMING_ATTEMPT">>, <<"IDLE", "BUCKET_ACTIVE">>, <<"IDLE", "REJECTED">>,
     <<"STREAMING_ATTEMPT", "STREAMING_ACTIVE">>, <<"STREAMING_ATTEMPT", "STREAMING_ERROR">>,
     <<"STREAMING_ATTEMPT", "BUCKET_ACTIVE">>,
     <<"STREAMING_ACTIVE", "STREAMING_DONE">>, <<"STREAMING_ACTIVE", "STREAMING_ERROR">>,
     <<"STREAMING_ACTIVE", "STREAMING_TIMEOUT">>, <<"STREAMING_ACTIVE", "BUCKET_ACTIVE">>,
     <<"BUCKET_ACTIVE", "BUCKET_DONE">>, <<"BUCKET_ACTIVE", "BUCKET_ERROR">>}

FinalStates == {"STREAMING_DONE", "STREAMING_ERROR", "STREAMING_TIMEOUT", "BUCKET_DONE",
                "BUCKET_ERROR"}

Count(seq, e) == Cardinality({i \in 1..Len(seq) : seq[i] = e})

C5_StateInvariant ==
    /\ Len(bucketArg) <= 1
    /\ Count(log, "start_stream") <= 1
    /\ Count(log, "tempfile") <= 1
    /\ \A i, j \in 1..Len(log) :
          (log[i] \in BucketCalls /\ log[j] \in {"detect", "convert", "start_stream"}) => j < i
    /\ (tpc = "done" /\ audio.len >= MinAudioBytes) => OrchState \in FinalStates
    /\ OrchState \in {"STREAMING_ERROR", "STREAMING_TIMEOUT"} => ~fallback
    /\ (OrchState = "BUCKET_ACTIVE" /\ mode = "streaming") => (fallback /\ StreamingFailed)

C5_Step ==
    \/ OrchState' = OrchState
    \/ <<OrchState, OrchState'>> \in OrchTransitions

\* C5: within one call the orchestrator takes only transitions of the stated machine:
\* at most one streaming attempt, then at most one bucket attempt (only as the
\* fallback of a failed streaming attempt in streaming mode), nothing after a bucket
\* attempt, and a call past the size guard that has returned is in exactly one final
\* state, STREAMING_ERROR and STREAMING_TIMEOUT only with fallback disabled
C5_FollowsStateMachine == [](C5_StateInvariant) /\ [][C5_Step]_vars

C5_Witness ==
    /\ OrchState = "BUCKET_ERROR"
    /\ mode = "streaming"
    /\ strm.outcome = "timeout"
    /\ Count(log, "start_stream") = 1
    /\ Count(log, "tempfile") = 1

\* C6: a returned bucket-path result has success=true only if a poll observed
\* COMPLETED and the transcript was fetched, and that transcript is the text; any
\* other result has success=false, a non-empty error and a null transcription
C6_BucketResultIsStructured ==
    (tpc = "done" /\ bucketArg # <<>>) =>
        IF tresult.success
        THEN /\ bk.status = "COMPLETED"
             /\ Called({"fetch"})
             /\ bk.transcript # None
             /\ tresult.transcription = bk.transcript
        ELSE /\ Truthy(tresult.error)
             /\ tresult.transcription = None

\* C7: every call of transcribe_audio_bytes eventually returns
C7_CallEventuallyReturns == (tpc = "entry") ~> (tpc = "done")

DownstreamStages == {"classify", "lookup", "generate", "synthesize"}

\* C8: in both voice flows a failed transcription gives success=false with the fixed
\* "couldn't understand" response and the transcription's error, and no classifier,
\* lookup, generator or synthesizer call
C8_TranscriptionFailureShortCircuits ==
    (tpc = "done" /\ ~tresult.success) =>
        /\ ~Called(DownstreamStages)
        /\ synthArg = <<>>
        /\ vpc \in {"transcribe", "done"}
        /\ vpc = "done" =>
              /\ vresult = Result(CouldNotUnderstand, FALSE, tresult.error)
              /\ vresult.response = Str("I'm sorry, I couldn't understand your voice input.")
              /\ Truthy(vresult.error)

C8_Witness ==
    /\ vpc = "done"
    /\ ~tresult.success
    /\ flow = "process_voice_with_audio_response"
    /\ vresult.error = Str("Streaming transcription timeout")

\* the stages of a voice request in their order
StageRank(e) ==
    CASE e = "transcribe" -> 1
      [] e = "classify" -> 2
      [] e = "lookup" -> 3
      [] e = "generate" -> 4
      [] e = "synthesize" -> 5
      [] OTHER -> 0

IsStage(e) == StageRank(e) > 0

StageLog == SelectSeq(log, IsStage)

\* C9: the stages of a voice request run in the order transcribe, classify, lookup,
\* generate, synthesize, each at most once; the synthesizer is called only after a
\* successful non-empty transcription and a successful text flow, with the text
\* flow's response, which is the response of the combined result
C9_StagesInOrder ==
    /\ \A i, j \in 1..Len(StageLog) : i < j => StageRank(StageLog[i]) < StageRank(StageLog[j])
    /\ StageLog # <<>> => StageLog[1] = "transcribe"
    /\ Len(synthArg) <= 1
    /\ Called({"synthesize"}) =>
          /\ tpc = "done"
          /\ tresult.success
          /\ Truthy(tresult.transcription)
          /\ Called({"classify"})
          /\ textres.success
          /\ synthArg = <<textres.response>>
          /\ vpc = "done"
          /\ vresult.response = textres.response

C9_Witness ==
    /\ vpc = "done"
    /\ StageLog = <<"transcribe", "classify", "lookup", "generate", "synthesize">>
    /\ polly.success
    /\ vresult.response = textres.response

\* C10: a failed classification ends the request without lookup, generation or
\* synthesis and the failed text flow is returned as is with its error; a failed
\* synthesis is the last stage and returns the response text with a null audio
\* reference and an error
C10_LaterStageFailureShortCircuits ==
    /\ Truthy(intent.error) =>
          /\ ~Called({"lookup", "generate", "synthesize"})
          /\ ~textres.success
          /\ textres.error = intent.error
    /\ (vpc = "done" /\ Called({"classify"}) /\ ~textres.success) =>
          /\ ~Called({"synthesize"})
          /\ vresult = textres
          /\ ~vresult.success
          /\ Truthy(vresult.error)
    /\ (Called({"synthesize"}) /\ ~polly.success) =>
          /\ log[Len(log)] = "synthesize"
          /\ vpc = "done"
          /\ vresult.response = textres.response
          /\ vresult[AudioKey(flow)] = None
          /\ Truthy(vresult.error)

C10_Witness ==
    /\ vpc = "done"
    /\ Called({"synthesize"})
    /\ ~polly.success
    /\ vresult.audio_file_path = None
    /\ flow = "process_voice_with_audio_response"

-----------------------------------------------------------------------------
(* Properties of the coordinator *)

FixedFailureMessages ==
    {CouldNotUnderstand, CouldNotTranscribe, TroubleProcessing,
     ProcessTextExcept(Absent).response, ProcessVoiceExcept(Absent).response}

\* a returned result: a response sentence, a success flag, and on success=false one
\* of the fixed messages with an error string
IsReturnedResult(r) ==
    /\ r.response \notin {Absent, None}
    /\ r.success \in BOOLEAN
    /\ ~r.success => (r.response \in FixedFailureMessages /\ r.error \notin {Absent, None})

\* C11: process_text_input and the two voice flows always return a result with a
\* response sentence and a success flag, also when a collaborator fails or raises,
\* and a success=false result has a fixed message and an error string
C11_AlwaysReturnsResult ==
    /\ (vpc \in {"text_done", "done"} /\ Called({"classify"})) => IsReturnedResult(textres)
    /\ vpc = "done" => IsReturnedResult(vresult)
    /\ vpc \in {"idle", "transcribe", "classify", "generate", "text_done", "done"}

C11_Witness ==
    /\ vpc = "done"
    /\ Called({"lookup"})
    /\ ~Called({"generate"})
    /\ vresult = ProcessTextExcept(<<"'name'">>)

\* process_text_input has returned (its result is textres)
TextReturned == vpc \in {"text_done", "done"} /\ Called({"classify"})

\* C12: an intent that is not a capital query gets success=true with the configured
\* unsupported-topic message, and neither the lookup nor the generator is called
C12_OtherQueryUnsupported ==
    (TextReturned /\ ~Truthy(intent.error) /\ ~intent.is_capital_query) =>
        /\ textres.success
        /\ textres.response =
              Str("I'm sorry, but I can only provide information about country and state capitals. For other questions, this information is not available.")
        /\ textres.response = UNSUPPORTED_QUERY_RESPONSE
        /\ ~Called({"lookup", "generate"})

C12_Witness ==
    /\ TextReturned
    /\ ~Called({"classify_error"})
    /\ ~intent.is_capital_query
    /\ textres.query_type = Str("other")

\* name q is in the table, compared as the lookup compares
InTable(table, q) == \E i \in 1..Len(table) : Lower(table[i].name) = Strip(Lower(q))

\* the capitals stored under name q in the table
StoredCapitals(table, q) ==
    {table[i].capital : i \in {j \in 1..Len(table) : Lower(table[j].name) = Strip(Lower(q))}}

\* sub occurs in s as a run of consecutive elements
IsInfix(sub, s) == \E i \in 0..(Len(s) - Len(sub)) : SubSeq(s, i + 1, i + Len(sub)) = sub

\* the intent is a capital query with a non-empty entity
NamesEntity(i) == ~Truthy(i.error) /\ i.is_capital_query /\ Truthy(i.entity)

\* C13: a capital query naming an entity of the tables gets success=true, the stored
\* capital as capital, and a response sentence that contains that capital
C13_FoundCapitalInResponse ==
    (TextReturned /\ NamesEntity(intent)
       /\ (InTable(countries, intent.entity) \/ InTable(states, intent.entity))) =>
        /\ textres.success
        /\ textres.capital \in StoredCapitals(countries, intent.entity)
                                \cup StoredCapitals(states, intent.entity)
        /\ IsInfix(textres.capital, textres.response)

\* C14: a capital query naming a non-empty entity absent from both tables gets the
\* fixed "no information" sentence with success=true and a null capital, and the
\* generator is not called
C14_UnknownEntityNoInformation ==
    (TextReturned /\ NamesEntity(intent)
       /\ ~InTable(countries, intent.entity) /\ ~InTable(states, intent.entity)) =>
        /\ textres.response =
              Str("I'm sorry, I don't have information about the capital of ")
                 \o intent.entity \o Str(".")
        /\ textres.success
        /\ textres.capital = None
        /\ textres.entity = intent.entity
        /\ ~Called({"generate"})

C14_Witness ==
    /\ TextReturned
    /\ intent.entity = <<"Atlantis">>
    /\ Called({"lookup"})
    /\ textres.capital = None

\* C15: a failed classification call gives a structured intent with the error set,
\* and process_text_input returns success=false with the "trouble processing"
\* message and that error, without lookup or generator
C15_ClassifierFailureStructured ==
    Called({"classify_error"}) =>
        /\ Truthy(intent.error)
        /\ ~intent.is_capital_query
        /\ intent.entity = None
        /\ TextReturned
        /\ textres =
              Result(Str("I'm sorry, I'm having trouble processing your request right now."),
                     FALSE, intent.error)
        /\ ~Called({"lookup", "generate"})

C15_Witness ==
    /\ Called({"classify_error"})
    /\ vpc = "text_done"
    /\ textres.error \in ModelMsgs

\* C16: a failed generation call gives exactly 'The capital of <entity> is <capital>.'
\* and the text flow returns success=true with that sentence
C16_GeneratorFailureTemplate ==
    Called({"generate_error"}) =>
        /\ TextReturned
        /\ textres.success
        /\ textres.entity = intent.entity
        /\ textres.capital \in StoredCapitals(countries, intent.entity)
                                \cup StoredCapitals(states, intent.entity)
        /\ textres.response =
              Str("The capital of ") \o textres.entity \o Str(" is ") \o textres.capital
                 \o Str(".")

C16_Witness ==
    /\ Called({"generate_error"})
    /\ vpc = "text_done"
    /\ textres.response = <<"The capital of ", "GEORGIA", " is ", "Tbilisi", ".">>

-----------------------------------------------------------------------------
(* Properties of the lookup and of the parser *)

\* C17: find_capital(q) is the stored capital of the country named q if the country
\* table has it (also when the state table has the name too), otherwise the stored
\* capital of the state named q if the state table has it, otherwise not-found
C17_FindCapitalCountryThenState ==
    fn = "find_capital" =>
        /\ InTable(countries, arg) => found \in StoredCapitals(countries, arg)
        /\ (~InTable(countries, arg) /\ InTable(states, arg)) =>
              found \in StoredCapitals(states, arg)
        /\ (~InTable(countries, arg) /\ ~InTable(states, arg)) => found = None

C17_Witness ==
    /\ fn = "find_capital"
    /\ arg = <<" ", "georgia">>
    /\ InTable(countries, arg) /\ InTable(states, arg)
    /\ found = <<"Tbilisi">>

\* the spellings of one word in other letter case
Spellings ==
    { {"japan", "Japan", "JAPAN", "jaPAN"}, {"georgia", "Georgia", "GEORGIA"},
      {"california", "California", "CALIFORNIA"}, {"atlantis", "Atlantis"},
      {"new", "New", "NEW"}, {"york", "York", "YORK"} }

CaseForms(t) == IF \E S \in Spellings : t \in S THEN UNION {S \in Spellings : t \in S} ELSE {t}

\* q in every letter case
RECURSIVE CaseVariants(_)
CaseVariants(q) ==
    IF q = <<>> THEN {<<>>}
    ELSE {<<h>> \o t : h \in CaseForms(Head(q)), t \in CaseVariants(Tail(q))}

\* q in every letter case with whitespace added before and after
Variants(q) == {pre \o v \o post : pre \in Pads, post \in Pads, v \in CaseVariants(q)}

LookupFns == {"find_country_capital", "find_state_capital", "find_capital"}

Lookup(f, q) ==
    CASE f = "find_country_capital" -> find_country_capital(q)
      [] f = "find_state_capital" -> find_state_capital(q)
      [] f = "find_capital" -> find_capital(q)

\* the entries function f looks through
Entries(f) ==
    CASE f = "find_country_capital" -> {countries[i] : i \in 1..Len(countries)}
      [] f = "find_state_capital" -> {states[i] : i \in 1..Len(states)}
      [] f = "find_capital" -> {countries[i] : i \in 1..Len(countries)}
                                  \cup {states[i] : i \in 1..Len(states)}

\* C18: each lookup function returns for every variant of q in letter case and
\* surrounding whitespace what it returns for q, and a query resolves to an entry
\* only if it is such a variant of the entry's name
C18_LookupIgnoresCaseAndPadding ==
    fn \in LookupFns =>
        /\ \A v \in Variants(arg) : Lookup(fn, v) = found
        /\ found # None =>
              \E e \in Entries(fn) : arg \in Variants(e.name) /\ found = e.capital

C18_Witness ==
    /\ fn = "find_country_capital"
    /\ arg = <<" ", "jaPAN", "\t", " ">>
    /\ found = <<"Tokyo">>

\* C19: 'CAPITAL_QUERY:T:N' with T COUNTRY or STATE and a non-empty name N, which
\* may hold colons and surrounding whitespace, parses to a capital query of type T
\* with entity N without its surrounding whitespace; 'OTHER_QUERY' parses to
\* not-a-capital-query
C19_ParsesCapitalQueryShape ==
    fn = "_parse_intent_response" =>
        /\ \A T \in ParseTypes, n \in ParseNames :
              (NameText(n) # <<>> /\ arg = Shape(T, NameText(n))) =>
                  /\ parsed.is_capital_query
                  /\ parsed.query_type = <<T>>
                  /\ parsed.entity = n.core
        /\ arg = <<"OTHER_QUERY">> => ~parsed.is_capital_query

C19_Witness ==
    /\ fn = "_parse_intent_response"
    /\ arg = Shape("STATE", <<" ", "St", ":", "Louis", " ">>)
    /\ parsed.entity = <<"St", ":", "Louis">>

\* r is one of the three expected shapes: CAPITAL_QUERY:COUNTRY:<name>,
\* CAPITAL_QUERY:STATE:<name> with a name, or OTHER_QUERY
IsExpectedShape(r) ==
    LET t == Strip(r)
    IN \/ t = <<"OTHER_QUERY">>
       \/ /\ Len(t) >= 5
          /\ SubSeq(t, 1, 2) = <<"CAPITAL_QUERY", ":">>
          /\ t[3] \in ParseTypes
          /\ t[4] = ":"
          /\ Strip(SubSeq(t, 5, Len(t))) # <<>>

\* C20: a response of none of the three expected shapes parses as
\* not-a-capital-query without an error, so a parsed capital query has type
\* COUNTRY or STATE
C20_OtherShapesAreNotCapitalQueries ==
    fn = "_parse_intent_response" =>
        /\ ~IsExpectedShape(arg) =>
              (~parsed.is_capital_query /\ parsed.entity = None /\ parsed.error = None)
        /\ parsed.is_capital_query => parsed.query_type \in {<<T>> : T \in ParseTypes}

-----------------------------------------------------------------------------
(* Properties of the two transcription paths *)

\* every call named a in the log comes before every call named b
Before(a, b) == \A i, j \in 1..Len(log) : (log[i] = a /\ log[j] = b) => i < j

C21_Order ==
    /\ Before("upload", "start_job") /\ Before("start_job", "poll") /\ Before("poll", "fetch")
    /\ Count(log, "upload") <= 1 /\ Count(log, "start_job") <= 1 /\ Count(log, "fetch") <= 1
    /\ Called({"start_job"}) => (Called({"upload"}) /\ bk.s3obj # "none")
    /\ Called({"poll"}) => Called({"start_job"})
    /\ Called({"fetch"}) => (Called({"poll"}) /\ bk.status = "COMPLETED")
    /\ bk.status = "FAILED" => ~Called({"fetch"})
    /\ tpc = "fetch" => bk.status = "COMPLETED"
    /\ tpc = "poll_sleep" => bk.status \in {"QUEUED", "IN_PROGRESS"}

\* a status poll that saw neither COMPLETED nor FAILED is followed by the sleep
\* and the sleep by the next poll
C21_KeepsPolling ==
    /\ (tpc = "poll" /\ tpc' # "poll" /\ bk'.status \in {"QUEUED", "IN_PROGRESS"}) =>
          (tpc' = "poll_sleep" \/ bret' # bret)
    /\ (tpc = "poll_sleep" /\ tpc' # "poll_sleep") => tpc' = "poll"

\* C21: the bucket path uploads, then submits the job (only after a successful
\* upload), then polls while the status is neither COMPLETED nor FAILED, then
\* fetches the transcript (only after COMPLETED, never after FAILED)
C21_BucketStepsInOrder == [](C21_Order) /\ [][C21_KeepsPolling]_vars

C21_Witness ==
    /\ tpc = "delete"
    /\ Count(log, "poll") = 2
    /\ log[Len(log)] = "fetch"
    /\ bk.status = "COMPLETED"

\* C22: a bucket-path run that uploaded an object has attempted to delete it when
\* it returns, however it ends
C22_UploadedObjectDeleted ==
    (tpc \in {"bucket_ret", "done"} /\ Called({"upload"}) /\ bk.s3obj # "none") =>
        Called({"delete"})

StreamingCalls == {"detect", "convert", "start_stream", "stop_live"}

\* C23: in bucket mode no detection, conversion or streaming session happens; in
\* streaming mode the session is started only after the credentials check, the
\* detection and a non-empty conversion, in that order, and a failed step ends
\* the streaming steps
C23_ModeSelectsPath ==
    /\ mode = "bucket" =>
          (~Called(StreamingCalls) /\ tpc \notin {"streaming", "convert", "start", "session", "wait"})
    /\ Called({"detect"}) => creds
    /\ Before("detect", "convert") /\ Before("convert", "start_stream")
    /\ Called({"start_stream"}) => Called({"detect", "convert"}) /\ Count(log, "convert") = 1
    /\ tpc \in {"start", "session", "wait"} => (creds /\ pcm > 0 /\ log[Len(log)] # "detect")
    /\ strm.outcome = "credentials" => ~Called(StreamingCalls)
    /\ strm.outcome = "conversion" => ~Called({"start_stream", "stop_live"})
    /\ strm.outcome = "session_start" => ~Called({"stop_live"})

C23_Witness ==
    /\ mode = "streaming"
    /\ tpc = "done"
    /\ strm.outcome = "conversion"
    /\ Called({"convert"})
    /\ ~Called({"start_stream"})

\* C24: a data file that fails to load leaves the construction of the data handler
\* complete, with that table empty and the other as its file gives it; lookups in
\* the empty table return None and the text flow answers 'no information'
C24_LoadFailureNonFatal ==
    /\ dh.status # "raised"
    /\ dh.status = "ready" =>
          /\ dh.countries = (IF countriesFile = "ok" THEN countries ELSE <<>>)
          /\ dh.states = (IF statesFile = "ok" THEN states ELSE <<>>)
          /\ (fn = "find_country_capital" /\ countriesFile # "ok") => found = None
          /\ (fn = "find_state_capital" /\ statesFile # "ok") => found = None
          /\ (vpc = "text_done" /\ Called({"lookup"}) /\ countriesFile # "ok"
                /\ statesFile # "ok") =>
                (textres.success /\ textres.response = NoInformation(intent.entity))

\* C25: the streaming attempt is completed only by a final result or by the error
\* callback, and the text it is about to return is that of a final result
C25_PartialNeverCompletes ==
    tpc \in {"session", "wait"} =>
        /\ tr.completed => (sess.finals \/ tr.error # Absent)
        /\ (tr.completed /\ tr.error = Absent) => sess.origin = "final"

\* C26: every result transcribe_audio_bytes returns has success=true with the
\* transcription text and no error, or success=false with an error string and a
\* null transcription
C26_ResultShape ==
    tpc = "done" =>
        \/ /\ tresult.success
           /\ tresult.transcription \notin {None, Absent}
           /\ tresult.error = Absent
        \/ /\ ~tresult.success
           /\ tresult.error \notin {None, Absent}
           /\ tresult.transcription = None

C26_Witness ==
    /\ tpc = "done"
    /\ mode = "streaming"
    /\ ~fallback
    /\ ~tresult.success
    /\ strm.outcome = "timeout"
    /\ Called({"start_stream"})

\* the chunks sent so far are the first chunks of the PCM audio, in order
IsPrefixOfPcm(sent) ==
    \A k \in 1..Len(sent) :
        /\ sent[k].at = (k - 1) * chunk_size
        /\ sent[k].len \in 1..chunk_size
        /\ sent[k].len < chunk_size => sent[k].at + sent[k].len = pcm

RECURSIVE TotalLen(_)
TotalLen(sent) == IF sent = <<>> THEN 0 ELSE Head(sent).len + TotalLen(Tail(sent))

\* C27: the chunks sent to the session are consecutive 8192-byte pieces of the PCM
\* audio in order (only the last shorter, none empty), end_stream is sent at most
\* once, and when it is sent the chunks sent before it add up to the PCM audio
C27_ChunksCoverPcm ==
    tpc \in {"session", "wait"} =>
        /\ IsPrefixOfPcm(sess.sent)
        /\ sess.ended <= 1
        /\ sess.ended = 1 =>
              (Len(sess.sent) = NumChunks(pcm) /\ TotalLen(sess.sent) = pcm)

\* the format each header stands for
Recognized == {"RIFF_WAVE", "ID3", "FFFB", "EBML", "OggS"}

FormatOf(h) ==
    CASE h = "RIFF_WAVE" -> "wav"
      [] h \in {"ID3", "FFFB"} -> "mp3"
      [] h = "OggS" -> "ogg"
      [] OTHER -> "webm"

\* C28: detection returns one of the four formats for every input, the one of the
\* header it recognizes and "webm" when it recognizes none; a failure of the pair
\* detection-conversion is an empty result of the conversion
C28_DetectionIsTotal ==
    fn = "detect_audio_format" =>
        /\ found \in {Str("wav"), Str("mp3"), Str("webm"), Str("ogg")}
        /\ found = Str(FormatOf(audio.header))
        /\ audio.header \notin Recognized => found = Str("webm")
        /\ pcm \in 0..(chunk_size * MaxChunks)

C28_Witness ==
    /\ fn = "detect_audio_format"
    /\ audio.header = "other"
    /\ found = Str("webm")
    /\ pcm > 0

\* C29: of two concurrent streaming-mode calls, each call's callbacks hear only
\* its own session, and a successful result carries what its own audio says
C29_SessionsIsolated ==
    live.pc = "none" =>
        \A c \in Calls :
            /\ calls[c].heard \subseteq {c}
            /\ (calls[c].pc = "done" /\ calls[c].result.success) =>
                  calls[c].result.transcription = SessionText(c)

\* C30: end_stream() is sent on the live session's stream, and the client forgets
\* that stream, only through stop_real_time_transcription
C30_LiveSessionUntouched ==
    /\ live.ended => live.endedBy = "live"
    /\ (live.pc = "open" /\ client.is_streaming_active) => client.active_stream = "live"

-----------------------------------------------------------------------------
(* Properties of the callbacks of a streaming session *)

InSession == tpc \in {"session", "wait"}

\* the error callback has fired in the session in progress
ErrorFired == InSession /\ tr.error # Absent

\* once set, the error stays while the attempt is in progress
C31_ErrorStays == (ErrorFired /\ InSession') => tr'.error = tr.error

\* the attempt ends as a streaming failure: the bucket path is called with the
\* request's audio, or the failure result is returned
EndsAsFailure ==
    /\ strm'.outcome \in {"error_callback", "session_start"}
    /\ IF fallback
       THEN tpc' = "bucket" /\ bucketArg' = Append(bucketArg, audio)
       ELSE tpc' = "done" /\ ~tresult'.success /\ tresult' = Fail(strm'.error)

C31_EndsWithThatError ==
    (ErrorFired /\ ~InSession') =>
        (EndsAsFailure /\ (~fallback => tresult' = Fail(tr.error)))

C31_EndsAsStreamingError ==
    (ErrorFired /\ ~InSession') =>
        /\ EndsAsFailure
        /\ strm'.outcome = "error_callback" => strm'.error = tr.error
        /\ strm'.outcome = "session_start" => strm'.error \in HandlerMsgs

\* C31 as stated: once the error callback has fired, the attempt ends in the bucket
\* fallback or in a failure result carrying the error of the callback
C31_ErrorCallbackWins_Original == [][C31_ErrorStays /\ C31_EndsWithThatError]_vars

\* C31: once the error callback has fired, whatever transcripts are delivered, the
\* attempt ends in the bucket fallback or in a failure result, never in a success;
\* the failure carries the error of the callback, or the exception of the event
\* stream when handle_events() raised afterwards
C31_ErrorCallbackWins == [][C31_ErrorStays /\ C31_EndsAsStreamingError]_vars

C31_Witness ==
    /\ tpc = "wait"
    /\ tr.completed
    /\ tr.error # Absent
    /\ tr.text # <<>>
    /\ sess.origin = "final"

\* the attempt returns its successful result in this step
StreamingSucceeds == InSession /\ tpc' = "done" /\ tresult'.success /\ strm'.outcome = "done"

C32_Step ==
    /\ StreamingSucceeds => tresult'.transcription = sess.last
    /\ (InSession /\ InSession' /\ sess'.last # sess.last) => tr'.text = sess'.last

\* C32: a successful streaming attempt returns the text of the transcript callback
\* delivered last; each callback replaces the text of the earlier ones
C32_LastTranscriptReturned ==
    [](InSession /\ sess.origin # "none" => tr.text = sess.last) /\ [][C32_Step]_vars

C32_Witness ==
    /\ tpc = "wait"
    /\ tr.completed
    /\ tr.error = Absent
    /\ sess.finals
    /\ sess.origin = "partial"
    /\ sess.last = <<"what is">>
    /\ tr.text = <<"what is">>

\* the session ended and no callback has fired
Silent == tpc = "wait" /\ ~tr.completed

C33_Step ==
    /\ (tpc = "session" /\ tpc' = "wait") => waited' = 0
    /\ (Silent /\ tpc' = "wait") => (~tr'.completed /\ waited' = waited + 1)
    /\ (Silent /\ tpc' # "wait") =>
          /\ waited > StreamingTimeout
          /\ strm'.outcome = "timeout"
          /\ IF fallback
             THEN tpc' = "bucket" /\ bucketArg' = Append(bucketArg, audio)
             ELSE tpc' = "done" /\ tresult' = Fail(Str("Streaming transcription timeout"))

\* C33: a session that ended with no transcript and no error callback returns no
\* successful or empty transcription from streaming: the call waits until more than
\* STREAMING_TIMEOUT has passed since the session ended, then takes the timeout
\* outcome (bucket fallback if enabled, else the timeout error)
C33_SilentSessionTimesOut ==
    [][C33_Step]_vars /\ (Silent ~> (strm.outcome = "timeout" /\ tpc \in {"bucket", "done"}))

C33_Witness ==
    /\ Silent
    /\ sess.origin = "none"
    /\ waited > StreamingTimeout

-----------------------------------------------------------------------------
(* Properties of the live session, of the lookup order and of the voice results *)

\* C34: the is-active flag is true exactly when the streaming client holds an active
\* stream, and after stop_real_time_transcription no stream is held
C34_FlagMatchesStream ==
    /\ client.is_streaming_active <=> client.active_stream # "none"
    /\ live.pc = "stopped" => client.active_stream = "none"
    /\ live.lastSend = "sent" => live.pc \in {"open", "stopped"}

\* C35: the capital of the text result is the country's when the country table
\* holds the entity and the state's otherwise, whatever query type the classifier
\* gave, and the result's query_type is the classifier's; for STATE and Georgia the
\* capital is Tbilisi
C35_CountryFirstWhateverType ==
    (TextReturned /\ NamesEntity(intent) /\ textres.success
       /\ textres.capital \notin {None, Absent}) =>
        /\ textres.query_type = intent.query_type
        /\ textres.entity = intent.entity
        /\ IF InTable(countries, intent.entity)
           THEN textres.capital \in StoredCapitals(countries, intent.entity)
           ELSE textres.capital \in StoredCapitals(states, intent.entity)
        /\ (intent.query_type = Str("STATE") /\ Strip(Lower(intent.entity)) = <<"georgia">>) =>
              textres.capital = <<"Tbilisi">>

C35_Witness ==
    /\ vpc = "text_done"
    /\ intent.query_type = Str("STATE")
    /\ textres.query_type = Str("STATE")
    /\ textres.capital = <<"Tbilisi">>

\* C36: a voice-flow result with success=true carries the transcribed text and the
\* query type, entity and capital of the text flow, and only a result with
\* success=true has a non-null audio reference
C36_SuccessCarriesMetadata ==
    (vpc = "done" /\ flow \in Flows) =>
        /\ vresult.success =>
              /\ Read(vresult, "transcribed_text") = tresult.transcription
              /\ Read(vresult, "query_type") = Read(textres, "query_type")
              /\ Read(vresult, "entity") = Read(textres, "entity")
              /\ Read(vresult, "capital") = Read(textres, "capital")
        /\ (Read(vresult, "audio_bytes") # None \/ Read(vresult, "audio_file_path") # None) =>
              vresult.success

\* the transcription succeeded without a text
EmptyTranscription == tpc = "done" /\ tresult.success /\ ~Truthy(tresult.transcription)

\* C37: a transcription that reports success with an empty or missing text makes
\* both voice flows return success=false with "No transcription result"; neither
\* the classifier nor the synthesizer is called, and the text flow never runs on an
\* empty transcript
C37_EmptyTranscriptShortCircuits ==
    /\ EmptyTranscription =>
          /\ ~Called(DownstreamStages)
          /\ synthArg = <<>>
          /\ vpc \in {"transcribe", "done"}
          /\ vpc = "done" =>
                /\ ~vresult.success
                /\ vresult.error = Str("No transcription result")
                /\ vresult.response = Str("I'm sorry, I couldn't transcribe your voice input.")
    /\ (flow \in Flows /\ Called({"classify"})) => Truthy(tresult.transcription)

C37_Witness ==
    /\ EmptyTranscription
    /\ vpc = "done"
    /\ flow = "process_voice_input"
    /\ tresult.transcription = <<>>
    /\ Called({"fetch"})

-----------------------------------------------------------------------------
(* Properties of the LiveKit agent and of the /ws endpoint *)

\* C38: for a payload received in a room the response is published at most once,
\* and only after the voice flow returned an audio file to a connected agent
C38_PublishedAtMostOnce ==
    fe.kind = "room" =>
        /\ fe.published <= 1
        /\ fe.published > 0 =>
              (vpc = "done" /\ fe.pc \in {"returned", "handled"}
                 /\ Truthy(Read(vresult, "audio_file_path")))

\* C39: a message of /ws gets one reply before the next is read; the reply is the
\* result of the voice flow when it has success=true with the synthesized audio
\* bytes, and the failure reply is sent only when processing raised
C39_OneReplyPerMessage ==
    (fe.kind = "ws" /\ fe.pc = "receive" /\ fe.replies > 0) =>
        /\ fe.replies = 1
        /\ (vpc = "done" /\ vresult.success /\ ~Serializable(vresult)) => fe.reply = "result"
        /\ fe.reply \in {"failure_decode", "failure_send"} => vpc # "done"

=============================================================================
